---- MODULE Spec2Model ----
(***************************************************************************)
(* Tenant Database Gateway of KilluaDB/Backend.                            *)
(*                                                                         *)
(* The platform database (projects, database_instances,                    *)
(* database_credentials, query_history), the orchestrator's IP registry    *)
(* and its Redis-backed store are the state.  Every Gateway operation      *)
(* (ExecuteQuery, InsertRow, DeleteRow, AddColumn, DeleteColumn,           *)
(* CreateTable, DeleteTable) is one atomic action that leaves its          *)
(* observable outcome in the variable last.                                *)
(*                                                                         *)
(* Text is a sequence of one-character strings, so that trimming, case     *)
(* folding, comment stripping and substring search are computed as the     *)
(* code computes them.                                                     *)
(***************************************************************************)
EXTENDS Integers, Sequences, FiniteSets, TLC

(***************************************************************************)
(* Bounds of the model.                                                    *)
(***************************************************************************)
\* rows of the platform database: database_instances, database_credentials
\* and query_history together
MaxRows == 3

\* largest number of rows a tenant statement reports
MaxAffected == 1

(***************************************************************************)
(* Text helpers (Go strings package).                                      *)
(***************************************************************************)
LowerJ == <<"a","b","c","d","e","f","g","h","i","j","k","l","m","n","o","p","q","r","s","t","u","v","w","x","y","z">>

UpperJ == <<"A","B","C","D","E","F","G","H","I","J","K","L","M","N","O","P","Q","R","S","T","U","V","W","X","Y","Z">>

Digits == {"0","1","2","3","4","5","6","7","8","9"}

Range(s) == {s[i] : i \in 1..Len(s)}

LowerSet == Range(LowerJ)

UpperSet == Range(UpperJ)

WhiteSpace == {" ", "\t", "\n", "\r"}

UpperCh(c) == IF c \in LowerSet THEN UpperJ[CHOOSE i \in 1..26 : LowerJ[i] = c] ELSE c

ToUpper(s) == [i \in 1..Len(s) |-> UpperCh(s[i])]

RECURSIVE TrimLeft(_)
TrimLeft(s) == IF s # <<>> /\ Head(s) \in WhiteSpace THEN TrimLeft(Tail(s)) ELSE s

RECURSIVE TrimRight(_)
TrimRight(s) ==
  IF s # <<>> /\ s[Len(s)] \in WhiteSpace THEN TrimRight(SubSeq(s, 1, Len(s) - 1)) ELSE s

TrimSpace(s) == TrimRight(TrimLeft(s))

MatchAt(s, i, pat) ==
  /\ i + Len(pat) - 1 <= Len(s)
  /\ \A k \in 1..Len(pat) : s[i + k - 1] = pat[k]

HasPrefix(s, pat) == MatchAt(s, 1, pat)

Contains(s, pat) == \E i \in 1..(Len(s) + 1) : MatchAt(s, i, pat)

\* strings.Split(s, ";"): the segments between the separators, empty ones kept
RECURSIVE SplitSemi(_)
SplitSemi(s) ==
  IF \E i \in 1..Len(s) : s[i] = ";"
  THEN LET i == CHOOSE i \in 1..Len(s) : s[i] = ";" /\ \A j \in 1..(i - 1) : s[j] # ";"
       IN <<SubSeq(s, 1, i - 1)>> \o SplitSemi(SubSeq(s, i + 1, Len(s)))
  ELSE <<s>>

(***************************************************************************)
(* SQL Safety Validator.                                                   *)
(***************************************************************************)
\* end of the match of --.* that starts at i: up to, not including, the newline
RECURSIVE LineEnd(_, _)
LineEnd(s, i) == IF i > Len(s) \/ s[i] = "\n" THEN i ELSE LineEnd(s, i + 1)

\* position of the first "*/" at or after i, 0 when there is none
RECURSIVE BlockClose(_, _)
BlockClose(s, i) ==
  IF i + 1 > Len(s) THEN 0
  ELSE IF s[i] = "*" /\ s[i + 1] = "/" THEN i ELSE BlockClose(s, i + 1)

\* commentPattern.ReplaceAllString(s, ""), scanning from position i
RECURSIVE StripFrom(_, _)
StripFrom(s, i) ==
  IF i > Len(s) THEN <<>>
  ELSE IF MatchAt(s, i, <<"-", "-">>) THEN StripFrom(s, LineEnd(s, i))
  ELSE IF MatchAt(s, i, <<"/", "*">>) /\ BlockClose(s, i + 2) # 0
       THEN StripFrom(s, BlockClose(s, i + 2) + 2)
  ELSE <<s[i]>> \o StripFrom(s, i + 1)

\* a validator that leaves the comments in the text
StripComments_None(s) == s

StripComments(s) == StripFrom(s, 1)

KwDropDatabase == <<"D","R","O","P"," ","D","A","T","A","B","A","S","E">>

KwDropSchema == <<"D","R","O","P"," ","S","C","H","E","M","A">>

KwTruncate == <<"T","R","U","N","C","A","T","E">>

KwDeleteFrom == <<"D","E","L","E","T","E"," ","F","R","O","M">>

KwAlterDatabase == <<"A","L","T","E","R"," ","D","A","T","A","B","A","S","E">>

KwCreateDatabase == <<"C","R","E","A","T","E"," ","D","A","T","A","B","A","S","E">>

KwCreateSchema == <<"C","R","E","A","T","E"," ","S","C","H","E","M","A">>

KwWhere == <<"W","H","E","R","E">>

dangerousKeywords ==
  <<KwDropDatabase, KwDropSchema, KwTruncate, KwDeleteFrom,
    KwAlterDatabase, KwCreateDatabase, KwCreateSchema>>

\* the loop over dangerousKeywords from index k on; "" when no keyword objects
RECURSIVE KeywordScan(_, _)
KeywordScan(normalized, k) ==
  IF k > Len(dangerousKeywords) THEN ""
  ELSE IF Contains(normalized, dangerousKeywords[k])
       THEN IF dangerousKeywords[k] = KwDeleteFrom
            THEN IF ~Contains(normalized, KwWhere)
                 THEN "DELETE statements must include a WHERE clause for safety"
                 ELSE KeywordScan(normalized, k + 1)
            ELSE "operation is not allowed for security reasons"
       ELSE KeywordScan(normalized, k + 1)

NonEmptyParts(parts) == Cardinality({i \in 1..Len(parts) : TrimSpace(parts[i]) # <<>>})

MultiStatement(normalized) ==
  /\ Contains(normalized, <<";">>)
  /\ Len(SplitSemi(normalized)) > 2
  /\ NonEmptyParts(SplitSemi(normalized)) > 1

Normalize(query) == TrimSpace(StripComments(ToUpper(TrimSpace(query))))

\* the error ValidateSQLQuery returns, "" for nil
ValidateSQLQuery(query) ==
  LET normalized == Normalize(query)
  IN IF normalized = <<>> THEN "query cannot be empty"
     ELSE IF KeywordScan(normalized, 1) # "" THEN KeywordScan(normalized, 1)
     ELSE IF MultiStatement(normalized)
          THEN "multiple statements are not allowed for security reasons"
     ELSE ""

KwSelect == <<"S","E","L","E","C","T">>

KwExplainSelect == <<"E","X","P","L","A","I","N"," ","S","E","L","E","C","T">>

\* a classification made on the text the validator inspected, comments removed
isSelect_AfterComments(query) ==
  HasPrefix(Normalize(query), KwSelect) \/ HasPrefix(Normalize(query), KwExplainSelect)

\* the classification made by executeSQLQuery
isSelect(query) ==
  LET normalized == ToUpper(TrimSpace(query))
  IN HasPrefix(normalized, KwSelect) \/ HasPrefix(normalized, KwExplainSelect)

(***************************************************************************)
(* Identifier validators.                                                  *)
(***************************************************************************)
IdentStart == LowerSet \cup UpperSet \cup {"_"}

\* ^[a-zA-Z_][a-zA-Z0-9_\-]*$ ; the error returned, "" for nil
validateIdentifier(identifier) ==
  IF identifier = <<>> THEN "identifier cannot be empty"
  ELSE IF /\ identifier[1] \in IdentStart
          /\ \A i \in 2..Len(identifier) : identifier[i] \in IdentStart \cup Digits \cup {"-"}
       THEN ""
       ELSE "invalid identifier"

MaxIdentLen == 63

\* a strict validator without the length limit
isValidIdentifier_NoLimit(name) ==
  /\ name # <<>>
  /\ name[1] \in IdentStart
  /\ \A i \in 2..Len(name) : name[i] \in IdentStart \cup Digits \cup {"$"}

\* ^[a-zA-Z_][a-zA-Z0-9_$]*$ and at most 63 bytes
isValidIdentifier(name) ==
  /\ name # <<>>
  /\ Len(name) <= MaxIdentLen
  /\ name[1] \in IdentStart
  /\ \A i \in 2..Len(name) : name[i] \in IdentStart \cup Digits \cup {"$"}

(***************************************************************************)
(* Column types and the CreateTable request.                               *)
(***************************************************************************)
validTypes ==
  <<<<"I","N","T">>,
    <<"I","N","T","E","G","E","R">>,
    <<"B","I","G","I","N","T">>,
    <<"S","M","A","L","L","I","N","T">>,
    <<"S","E","R","I","A","L">>,
    <<"B","I","G","S","E","R","I","A","L">>,
    <<"D","E","C","I","M","A","L">>,
    <<"N","U","M","E","R","I","C">>,
    <<"R","E","A","L">>,
    <<"D","O","U","B","L","E"," ","P","R","E","C","I","S","I","O","N">>,
    <<"B","O","O","L","E","A","N">>,
    <<"B","O","O","L">>,
    <<"C","H","A","R">>,
    <<"V","A","R","C","H","A","R">>,
    <<"T","E","X","T">>,
    <<"D","A","T","E">>,
    <<"T","I","M","E">>,
    <<"T","I","M","E","S","T","A","M","P">>,
    <<"T","I","M","E","S","T","A","M","P","T","Z">>,
    <<"I","N","T","E","R","V","A","L">>,
    <<"U","U","I","D">>,
    <<"J","S","O","N">>,
    <<"J","S","O","N","B">>,
    <<"B","Y","T","E","A">>>>

isValidColumnType(colType) ==
  \E k \in 1..Len(validTypes) : HasPrefix(ToUpper(colType), validTypes[k])

IdPublic == <<"p","u","b","l","i","c">>

\* the index of the first column that fails validation, 0 when none does
FirstBadColumn(columns) ==
  LET bad == {i \in 1..Len(columns) :
                \/ ~isValidIdentifier(columns[i].name)
                \/ columns[i].type = <<>>
                \/ ~isValidColumnType(columns[i].type)}
  IN IF bad = {} THEN 0 ELSE CHOOSE i \in bad : \A j \in bad : i <= j

\* TableService.validateCreateTableRequest; the error returned, "" for nil.
\* foreign_keys is <<>> (absent) or <<fk>>
validateCreateTableRequest(req) ==
  LET schema == IF req.schema = <<>> THEN IdPublic ELSE req.schema
  IN IF ~isValidIdentifier(schema) THEN "invalid schema name"
     ELSE IF ~isValidIdentifier(req.table) THEN "invalid table name"
     ELSE IF Len(req.columns) = 0 THEN "at least one column is required"
     ELSE IF FirstBadColumn(req.columns) # 0
     THEN IF ~isValidIdentifier(req.columns[FirstBadColumn(req.columns)].name)
          THEN "invalid column name"
          ELSE IF req.columns[FirstBadColumn(req.columns)].type = <<>>
          THEN "column type is required"
          ELSE "invalid column type"
     ELSE IF req.foreign_keys # <<>>
     THEN LET fk == req.foreign_keys[1]
          IN IF ~isValidIdentifier(fk.schema) THEN "invalid foreign key schema name"
             ELSE IF ~isValidIdentifier(fk.table) THEN "invalid foreign key table name"
             ELSE IF \E i \in 1..Len(fk.references) :
                        \/ ~isValidIdentifier(fk.references[i].local_column)
                        \/ ~isValidIdentifier(fk.references[i].foreign_column)
             THEN "invalid foreign key column name"
             ELSE ""
     ELSE ""

(***************************************************************************)
(* Statement builder of CreateTable.  A column is                          *)
(*   [name, type, default, primary, is_unique, is_identity, nullable],     *)
(* default being <<>> for nil and <<text>> for a given text; a foreign-key *)
(* reference is [local_column, foreign_column, on_update, on_delete].      *)
(***************************************************************************)
Quoted(name) == <<"\"">> \o name \o <<"\"">>

SqlIdentity == <<" ","G","E","N","E","R","A","T","E","D"," ","A","L","W","A","Y","S"," ","A","S"," ","I","D","E","N","T","I","T","Y">>

SqlPrimaryKey == <<" ","P","R","I","M","A","R","Y"," ","K","E","Y">>

SqlUnique == <<" ","U","N","I","Q","U","E">>

SqlNotNull == <<" ","N","O","T"," ","N","U","L","L">>

SqlDefault == <<" ","D","E","F","A","U","L","T"," ">>

\* a column clause that puts UNIQUE before PRIMARY KEY
ColumnDef_UniqueFirst(col, more) ==
  <<" ", " ">> \o Quoted(col.name) \o <<" ">> \o col.type
    \o (IF col.is_identity THEN SqlIdentity ELSE <<>>)
    \o (IF col.is_unique THEN SqlUnique ELSE <<>>)
    \o (IF col.primary THEN SqlPrimaryKey ELSE <<>>)
    \o (IF ~col.nullable THEN SqlNotNull ELSE <<>>)
    \o (IF col.default # <<>> /\ col.default[1] # <<>> THEN SqlDefault \o col.default[1]
        ELSE <<>>)
    \o (IF more THEN <<",">> ELSE <<>>)

\* the clause of one column; more: a column or a foreign key follows
ColumnDef(col, more) ==
  <<" ", " ">> \o Quoted(col.name) \o <<" ">> \o col.type
    \o (IF col.is_identity THEN SqlIdentity ELSE <<>>)
    \o (IF col.primary THEN SqlPrimaryKey ELSE <<>>)
    \o (IF col.is_unique THEN SqlUnique ELSE <<>>)
    \o (IF ~col.nullable THEN SqlNotNull ELSE <<>>)
    \o (IF col.default # <<>> /\ col.default[1] # <<>> THEN SqlDefault \o col.default[1]
        ELSE <<>>)
    \o (IF more THEN <<",">> ELSE <<>>)

\* the clause of one foreign-key reference; more: another reference follows
FkDef(fk, ref, more) ==
  <<" "," ","F","O","R","E","I","G","N"," ","K","E","Y"," ","(">> \o Quoted(ref.local_column) \o <<")"," ","R","E","F","E","R","E","N","C","E","S"," ">>
    \o Quoted(fk.schema) \o <<".">> \o Quoted(fk.table)
    \o <<"(">> \o Quoted(ref.foreign_column) \o <<")">>
    \o (IF ref.on_delete # <<>> THEN <<" ","O","N"," ","D","E","L","E","T","E"," ">> \o ref.on_delete ELSE <<>>)
    \o (IF ref.on_update # <<>> THEN <<" ","O","N"," ","U","P","D","A","T","E"," ">> \o ref.on_update ELSE <<>>)
    \o (IF more THEN <<",">> ELSE <<>>)

\* the lines from index i on, each closed by a newline
RECURSIVE JoinLines(_, _)
JoinLines(lines, i) ==
  IF i > Len(lines) THEN <<>> ELSE lines[i] \o <<"\n">> \o JoinLines(lines, i + 1)

\* TableService.parseCreateQuery: the text of the CREATE TABLE statement
parseCreateQuery(req) ==
  LET schema == IF req.schema = <<>> THEN IdPublic ELSE req.schema
      refs == IF req.foreign_keys = <<>> THEN <<>> ELSE req.foreign_keys[1].references
      n == Len(req.columns)
      cols == [i \in 1..n |-> ColumnDef(req.columns[i], i < n \/ Len(refs) > 0)]
      fks == [i \in 1..Len(refs) |-> FkDef(req.foreign_keys[1], refs[i], i < Len(refs))]
  IN <<"C","R","E","A","T","E"," ","T","A","B","L","E"," ">> \o Quoted(schema) \o <<".">> \o Quoted(req.table)
       \o <<" ", "(", "\n">> \o JoinLines(cols, 1) \o JoinLines(fks, 1)
       \o <<")", ";", "\n">>

(***************************************************************************)
(* State: the platform database, the orchestrator and the last call.       *)
(***************************************************************************)
VARIABLES
  projects,    \* projects table: project id -> owning user, NoUser when no row
  instances,   \* database_instances rows, the row id is the index
  creds,       \* database_credentials rows, the row id is the index
  registry,    \* orchestrator's in-memory IP registry: container -> IP
  redis,       \* Redis-backed IP store: container -> IP
  history,     \* query_history rows in insertion order
  last         \* outcome of the Gateway call that has just returned

vars == <<projects, instances, creds, registry, redis, history, last>>

NoUser == "nobody"

Projects == {"p1", "p2"}

Statuses == {"creating", "running", "failed", "paused", "deleted"}

\* container_id column; "" stands for both NULL and the empty string
Containers == {"c1"}

NoContainer == ""

\* port column; NoPort stands for NULL
PostgresPort == 5432

NoPort == -1

\* addresses the registry may hold, and the (older) one Redis may hold
RegistryIPs == {"10.0.0.1"}

RedisIPs == {"10.0.0.2"}

NoIP == ""

\* passwords the orchestrator generates, one per provisioning or rotation
Secrets == <<"s1", "s2", "s3", "s4">>

\* password_encrypted column: <<"enc", plaintext>> decrypts, anything else does not
EncryptString(plain) == <<"enc", plain>>

Undecryptable == <<"junk", "">>

Usernames == {"admin"}

\* the rows the collaborators write: every configuration of a running instance,
\* and a fully configured instance that is not (yet) running
InstanceKinds ==
  [status : {"running"}, container : Containers \cup {NoContainer},
   port : {PostgresPort, NoPort}]
  \cup [status : {"creating"}, container : Containers, port : {PostgresPort}]

DefaultDB == "postgres"

(***************************************************************************)
(* Repository lookups.                                                     *)
(***************************************************************************)
\* the ownership filter dropped: any existing project is found
GetByIDAndUserID_AnyUser(id, userID) == IF projects[id] # NoUser THEN id ELSE ""

\* SELECT ... FROM projects WHERE id = $1 AND user_id = $2 ; "" when no row
GetByIDAndUserID(id, userID) == IF projects[id] = userID THEN id ELSE ""

\* the status filter dropped: the newest instance of the project
GetRunningByProjectID_AnyStatus(projectID) ==
  LET rows == {i \in 1..Len(instances) : instances[i].project = projectID}
  IN IF rows = {} THEN 0
     ELSE CHOOSE i \in rows : \A j \in rows : instances[j].created <= instances[i].created

\* ... WHERE project_id = $1 AND status = 'running' ORDER BY created_at DESC LIMIT 1
\* the row id, 0 when no row
GetRunningByProjectID(projectID) ==
  LET rows == {i \in 1..Len(instances) :
                 instances[i].project = projectID /\ instances[i].status = "running"}
  IN IF rows = {} THEN 0
     ELSE CHOOSE i \in rows : \A j \in rows : instances[j].created <= instances[i].created

\* the ordering reversed: the oldest credential row
GetLatestByInstanceID_Oldest(instanceID) ==
  LET rows == {i \in 1..Len(creds) : creds[i].instance = instanceID}
  IN IF rows = {} THEN 0
     ELSE CHOOSE i \in rows : \A j \in rows : creds[i].created <= creds[j].created

\* ... WHERE db_instance_id = $1 ORDER BY created_at DESC LIMIT 1 ; 0 when no row
GetLatestByInstanceID(instanceID) ==
  LET rows == {i \in 1..Len(creds) : creds[i].instance = instanceID}
  IN IF rows = {} THEN 0
     ELSE CHOOSE i \in rows : \A j \in rows : creds[j].created <= creds[i].created

\* a registry that never finds the container
GetContainerIP_Miss(containerID) == [ip |-> NoIP, ok |-> FALSE]

\* a registry that answers from the persisted copy when there is one
GetContainerIP_Persisted(containerID) ==
  IF containerID \in Containers /\ redis[containerID] # NoIP
  THEN [ip |-> redis[containerID], ok |-> TRUE]
  ELSE IF containerID \in Containers /\ registry[containerID] # NoIP
  THEN [ip |-> registry[containerID], ok |-> TRUE]
  ELSE [ip |-> NoIP, ok |-> FALSE]

\* orchestrator.GetContainerIP: (ip, found)
GetContainerIP(containerID) ==
  IF containerID \in Containers /\ registry[containerID] # NoIP
  THEN [ip |-> registry[containerID], ok |-> TRUE]
  ELSE [ip |-> NoIP, ok |-> FALSE]

\* a persistent store that is down
GetContainerIPFromRedis_Down(containerID) == [ip |-> NoIP, err |-> "redis: connection refused"]

\* orchestrator.GetContainerIPFromRedis: (ip, err)
GetContainerIPFromRedis(containerID) ==
  IF containerID \in Containers /\ redis[containerID] # NoIP
  THEN [ip |-> redis[containerID], err |-> ""]
  ELSE [ip |-> NoIP, err |-> "container IP not found"]

\* utils.DecryptString: (plaintext, err)
DecryptString(cipher) ==
  IF cipher[1] = "enc" THEN [plain |-> cipher[2], err |-> ""]
  ELSE [plain |-> "", err |-> "cipher: message authentication failed"]

DSN(host, port, user, password) ==
  [host |-> host, port |-> port, user |-> user, password |-> password, dbname |-> DefaultDB]

(***************************************************************************)
(* Outcome of a call: what the caller and the collaborators observe.       *)
(*   err     hard error returned ("" for nil)                              *)
(*   result  <<r>> when a result value is returned, <<>> for nil           *)
(*   steps   lookups and calls made, in program order                      *)
(*   inst    instance row selected (0: none), cred likewise                *)
(*   dsn     <<d>> once the connection string has been built               *)
(*   sent    statements sent to the tenant, in order                       *)
(*   audit   records handed to QueryHistoryRepository.Create               *)
(*   opened, closed   tenant connections opened / closed by the call       *)
(***************************************************************************)
Outcome(err, result, steps, inst, cred, dsn, sent, audit, opened, closed) ==
  [err |-> err, result |-> result, steps |-> steps, inst |-> inst, cred |-> cred,
   dsn |-> dsn, sent |-> sent, audit |-> audit, opened |-> opened, closed |-> closed]

\* a locator failure returned as a result with a nil error
LocFail_Soft(err, steps, inst, cred) ==
  Outcome("", <<[error |-> err]>>, steps, inst, cred, <<>>, <<>>, <<>>, 0, 0)

\* a locator failure that also writes a history record
LocFail_Logged(err, steps, inst, cred) ==
  Outcome(err, <<>>, steps, inst, cred, <<>>, <<>>,
          <<[db_instance_id |-> inst, user_id |-> "", query_text |-> <<>>,
             success |-> FALSE]>>, 0, 0)

\* a locator failure: hard error, nothing opened
LocFail(err, steps, inst, cred) ==
  Outcome(err, <<>>, steps, inst, cred, <<>>, <<>>, <<>>, 0, 0)

\* ProjectService.getDBConnection; openOk: sql.Open succeeds
getDBConnection(userID, projectID, openOk) ==
  LET project == GetByIDAndUserID(projectID, userID)
      inst    == GetRunningByProjectID(projectID)
      cred    == GetLatestByInstanceID(inst)
      mem     == GetContainerIP(instances[inst].container)
      red     == GetContainerIPFromRedis(instances[inst].container)
      ipSteps == IF mem.ok THEN <<"registry">> ELSE <<"registry", "redis">>
      ip      == IF mem.ok THEN mem.ip ELSE red.ip
      dec     == DecryptString(creds[cred].cipher)
      base    == <<"project", "instance", "credential">>
      dsn     == DSN(ip, instances[inst].port, creds[cred].username, dec.plain)
  IN IF project = ""
     THEN LocFail("project not found or not accessible", <<"project">>, 0, 0)
     ELSE IF inst = 0
     THEN LocFail("no running database instance for this project",
                  <<"project", "instance">>, 0, 0)
     ELSE IF cred = 0
     THEN LocFail("no credentials configured for this database instance", base, inst, 0)
     ELSE IF instances[inst].container = NoContainer
     THEN LocFail("database instance container ID not configured", base, inst, cred)
     ELSE IF instances[inst].port = NoPort
     THEN LocFail("database instance port not configured", base, inst, cred)
     ELSE IF ~mem.ok /\ red.err # ""
     THEN LocFail("failed to get container IP", base \o ipSteps, inst, cred)
     ELSE IF dec.err # ""
     THEN LocFail("failed to decrypt database credentials",
                  base \o ipSteps \o <<"decrypt">>, inst, cred)
     ELSE IF ~openOk
     THEN Outcome("failed to open database connection", <<>>,
                  base \o ipSteps \o <<"decrypt", "open">>, inst, cred, <<dsn>>,
                  <<>>, <<>>, 0, 0)
     ELSE Outcome("", <<>>, base \o ipSteps \o <<"decrypt", "open">>, inst, cred,
                  <<dsn>>, <<>>, <<>>, 1, 0)

\* TableService.openDbConnection; openOk: sql.Open succeeds
openDbConnection(userId, projectId, openOk) ==
  LET project    == GetByIDAndUserID(projectId, userId)
      dbInstance == GetRunningByProjectID(projectId)
      dbCred     == GetLatestByInstanceID(dbInstance)
      mem     == GetContainerIP(instances[dbInstance].container)
      red     == GetContainerIPFromRedis(instances[dbInstance].container)
      ipSteps == IF mem.ok THEN <<"registry">> ELSE <<"registry", "redis">>
      ip      == IF mem.ok THEN mem.ip ELSE red.ip
      dec     == DecryptString(creds[dbCred].cipher)
      base    == <<"project", "instance", "credential">>
      dsn     == DSN(ip, instances[dbInstance].port, creds[dbCred].username, dec.plain)
  IN IF project = ""
     THEN LocFail("project not found or not accessible", <<"project">>, 0, 0)
     ELSE IF dbInstance = 0
     THEN LocFail("no running database instance for this project",
                  <<"project", "instance">>, 0, 0)
     ELSE IF dbCred = 0
     THEN LocFail("no credentials configured for this database instance",
                  base, dbInstance, 0)
     ELSE IF instances[dbInstance].container = NoContainer
     THEN LocFail("database instance container ID not configured", base, dbInstance, dbCred)
     ELSE IF instances[dbInstance].port = NoPort
     THEN LocFail("database instance port not configured", base, dbInstance, dbCred)
     ELSE IF ~mem.ok /\ red.err # ""
     THEN LocFail("failed to get container IP", base \o ipSteps, dbInstance, dbCred)
     ELSE IF dec.err # ""
     THEN LocFail("cipher: message authentication failed",
                  base \o ipSteps \o <<"decrypt">>, dbInstance, dbCred)
     ELSE IF ~openOk
     THEN Outcome("sql: open failed", <<>>,
                  base \o ipSteps \o <<"decrypt", "open">>, dbInstance, dbCred, <<dsn>>,
                  <<>>, <<>>, 0, 0)
     ELSE Outcome("", <<>>, base \o ipSteps \o <<"decrypt", "open">>, dbInstance, dbCred,
                  <<dsn>>, <<>>, <<>>, 1, 0)

(***************************************************************************)
(* Free-form queries: QueryService.ExecuteQuery.                           *)
(***************************************************************************)
\* what the tenant's driver answers to one statement: an error, or a row count
DrvError == -1

DriverAnswers == {DrvError} \cup (0..MaxAffected)

QueryResult(rows, rowCount, rowsAffected, error) ==
  [rows |-> rows, row_count |-> rowCount, rows_affected |-> rowsAffected, error |-> error]

\* a history record that reports success whatever happened
QueryHistory_AlwaysSuccess(instanceID, userID, queryText, success) ==
  [db_instance_id |-> instanceID, user_id |-> userID, query_text |-> queryText,
   success |-> TRUE]

\* models.QueryHistory built by ExecuteQuery
QueryHistory(instanceID, userID, queryText, success) ==
  [db_instance_id |-> instanceID, user_id |-> userID, query_text |-> queryText,
   success |-> success]

\* executeSelectQuery: rows come back, or the driver's error in the result
executeSelectQuery(drv) ==
  IF drv = DrvError THEN QueryResult(0, 0, 0, "pq: error")
  ELSE QueryResult(drv, drv, drv, "")

\* executeNonSelectQuery: rows affected, or the driver's error in the result
executeNonSelectQuery(drv) ==
  IF drv = DrvError THEN QueryResult(0, 0, 0, "pq: error")
  ELSE QueryResult(0, 0, drv, "")

executeSQLQuery(query, drv) ==
  IF isSelect(query) THEN executeSelectQuery(drv) ELSE executeNonSelectQuery(drv)

\* a statement sent to the tenant instance, and whether the driver accepted it
Stmt(inst, text, ok) == [instance |-> inst, text |-> text, ok |-> ok]

\* an early exit that returns its result without writing the record
SoftFail_Unlogged(userID, query, msg, steps, inst, cred) ==
  Outcome("", <<[rows |-> 0, row_count |-> 0, rows_affected |-> 0, error |-> msg]>>, steps,
          inst, cred, <<>>, <<>>, <<>>, 0, 0)

\* an early exit of ExecuteQuery that writes a failed record and returns a result
SoftFail(userID, query, msg, steps, inst, cred) ==
  Outcome("", <<QueryResult(0, 0, 0, msg)>>, steps \o <<"audit">>, inst, cred, <<>>, <<>>,
          <<QueryHistory(inst, userID, query, FALSE)>>, 0, 0)

\* an ExecuteQuery that sends the text as the validator normalized it
ExecuteQueryOutcome_SendsNormalized(userID, query, projectId, openOk, drv) ==
  LET project == GetByIDAndUserID(projectId, userID)
      inst    == GetRunningByProjectID(projectId)
      cred    == GetLatestByInstanceID(inst)
      verr    == ValidateSQLQuery(query)
      mem     == GetContainerIP(instances[inst].container)
      red     == GetContainerIPFromRedis(instances[inst].container)
      ipSteps == IF mem.ok THEN <<"registry">> ELSE <<"registry", "redis">>
      ip      == IF mem.ok THEN mem.ip ELSE red.ip
      dec     == DecryptString(creds[cred].cipher)
      base    == <<"project", "instance", "credential", "validate">>
      dsn     == DSN(ip, instances[inst].port, creds[cred].username, dec.plain)
      result  == executeSQLQuery(query, drv)
  IN IF project = ""
     THEN LocFail("project not found or not accessible", <<"project">>, 0, 0)
     ELSE IF inst = 0
     THEN LocFail("no running database instance for this project",
                  <<"project", "instance">>, 0, 0)
     ELSE IF cred = 0
     THEN LocFail("no credentials configured for this database instance",
                  <<"project", "instance", "credential">>, inst, 0)
     ELSE IF verr # ""
     THEN SoftFail(userID, query, verr, base, inst, cred)
     ELSE IF instances[inst].container = NoContainer
     THEN SoftFail(userID, query, "database instance container ID not configured",
                   base, inst, cred)
     ELSE IF ~mem.ok /\ red.err # ""
     THEN SoftFail(userID, query, "failed to get container IP from orchestrator",
                   base \o ipSteps, inst, cred)
     ELSE IF instances[inst].port = NoPort
     THEN SoftFail(userID, query, "database instance port not configured",
                   base \o ipSteps, inst, cred)
     ELSE IF dec.err # ""
     THEN SoftFail(userID, query, "failed to decrypt database credentials",
                   base \o ipSteps \o <<"decrypt">>, inst, cred)
     ELSE IF ~openOk
     THEN [SoftFail(userID, query, "sql: open failed",
                    base \o ipSteps \o <<"decrypt", "open">>, inst, cred)
             EXCEPT !.dsn = <<dsn>>]
     ELSE Outcome("", <<result>>,
                  base \o ipSteps \o <<"decrypt", "open", "exec", "audit", "close">>,
                  inst, cred, <<dsn>>, <<Stmt(inst, Normalize(query), drv # DrvError)>>,
                  <<QueryHistory(inst, userID, query, result.error = "")>>, 1, 1)

\* QueryService.ExecuteQuery
ExecuteQueryOutcome(userID, query, projectId, openOk, drv) ==
  LET project == GetByIDAndUserID(projectId, userID)
      inst    == GetRunningByProjectID(projectId)
      cred    == GetLatestByInstanceID(inst)
      verr    == ValidateSQLQuery(query)
      mem     == GetContainerIP(instances[inst].container)
      red     == GetContainerIPFromRedis(instances[inst].container)
      ipSteps == IF mem.ok THEN <<"registry">> ELSE <<"registry", "redis">>
      ip      == IF mem.ok THEN mem.ip ELSE red.ip
      dec     == DecryptString(creds[cred].cipher)
      base    == <<"project", "instance", "credential", "validate">>
      dsn     == DSN(ip, instances[inst].port, creds[cred].username, dec.plain)
      result  == executeSQLQuery(query, drv)
  IN IF project = ""
     THEN LocFail("project not found or not accessible", <<"project">>, 0, 0)
     ELSE IF inst = 0
     THEN LocFail("no running database instance for this project",
                  <<"project", "instance">>, 0, 0)
     ELSE IF cred = 0
     THEN LocFail("no credentials configured for this database instance",
                  <<"project", "instance", "credential">>, inst, 0)
     ELSE IF verr # ""
     THEN SoftFail(userID, query, verr, base, inst, cred)
     ELSE IF instances[inst].container = NoContainer
     THEN SoftFail(userID, query, "database instance container ID not configured",
                   base, inst, cred)
     ELSE IF ~mem.ok /\ red.err # ""
     THEN SoftFail(userID, query, "failed to get container IP from orchestrator",
                   base \o ipSteps, inst, cred)
     ELSE IF instances[inst].port = NoPort
     THEN SoftFail(userID, query, "database instance port not configured",
                   base \o ipSteps, inst, cred)
     ELSE IF dec.err # ""
     THEN SoftFail(userID, query, "failed to decrypt database credentials",
                   base \o ipSteps \o <<"decrypt">>, inst, cred)
     ELSE IF ~openOk
     THEN [SoftFail(userID, query, "sql: open failed",
                    base \o ipSteps \o <<"decrypt", "open">>, inst, cred)
             EXCEPT !.dsn = <<dsn>>]
     ELSE Outcome("", <<result>>,
                  base \o ipSteps \o <<"decrypt", "open", "exec", "audit", "close">>,
                  inst, cred, <<dsn>>, <<Stmt(inst, query, drv # DrvError)>>,
                  <<QueryHistory(inst, userID, query, result.error = "")>>, 1, 1)

(***************************************************************************)
(* Structured operations: ProjectService and TableService.                 *)
(***************************************************************************)
\* a request is refused before any lookup
ValidationFail(err) == Outcome(err, <<>>, <<"validate">>, 0, 0, <<>>, <<>>, <<>>, 0, 0)

\* the locator ran after validation
AfterValidation(conn) == [conn EXCEPT !.steps = <<"validate">> \o @]

\* a call that closes its connection only when it succeeds
Finish_Leaky(db, err, result, steps, sent) ==
  [db EXCEPT !.err = err, !.result = result,
             !.steps = @ \o steps \o (IF err = "" THEN <<"close">> ELSE <<>>),
             !.sent = sent, !.closed = IF err = "" THEN 1 ELSE 0]

\* the rest of a call on the open connection db; the deferred Close runs last
Finish(db, err, result, steps, sent) ==
  [db EXCEPT !.err = err, !.result = result, !.steps = @ \o steps \o <<"close">>,
             !.sent = sent, !.closed = 1]

ProbeAnswers == {"has_id", "no_id", "error"}

ReturningAnswers == {"ok", "undefined_column", "error"}

\* the same, with the case the driver tells apart only by its effect: the
\* INSERT ran and its row is stored, but the id it returns cannot be scanned
\* into an int64 (an id column of type uuid or text)
TenantReturningAnswers == ReturningAnswers \cup {"scan_error"}

\* the id a RETURNING insert reads back
GeneratedID == 7

\* an InsertRow that falls back to the plain INSERT after any failure of the
\* RETURNING attempt
InsertRowOutcome_AlwaysFallback(userID, projectID, req, openOk, probe, ret, plain) ==
  LET db   == AfterValidation(getDBConnection(userID, projectID, openOk))
      hasIDColumn == probe = "has_id"
      sProbe == Stmt(db.inst, <<"SELECT EXISTS information_schema.columns", req.table>>,
                     probe # "error")
      sRet   == Stmt(db.inst, <<"INSERT RETURNING id", req.table, req.values>>,
                     ret \in {"ok", "scan_error"})
      sPlain == Stmt(db.inst, <<"INSERT", req.table, req.values>>, plain # DrvError)
      plainSteps == <<"probe">> \o (IF hasIDColumn THEN <<"insert_returning">> ELSE <<>>)
                      \o <<"insert">>
      plainSent  == <<sProbe>> \o (IF hasIDColumn THEN <<sRet>> ELSE <<>>) \o <<sPlain>>
  IN IF validateIdentifier(req.table) # "" THEN ValidationFail("invalid table name")
     ELSE IF DOMAIN req.values = {} THEN ValidationFail("values cannot be empty")
     ELSE IF \E c \in DOMAIN req.values : validateIdentifier(c) # ""
     THEN ValidationFail("invalid column name")
     ELSE IF db.err # "" THEN db
     ELSE IF hasIDColumn /\ ret = "ok"
     THEN Finish(db, "", <<[row_id |-> GeneratedID]>>, <<"probe", "insert_returning">>,
                 <<sProbe, sRet>>)
     ELSE IF plain = DrvError
     THEN Finish(db, "failed to insert row", <<>>, plainSteps, plainSent)
     ELSE IF plain = 0
     THEN Finish(db, "no rows were inserted", <<>>, plainSteps, plainSent)
     ELSE Finish(db, "", <<[row_id |-> 0]>>, plainSteps, plainSent)

\* an InsertRow that routes and connects first and validates the names after
InsertRowOutcome_LookupFirst(userID, projectID, req, openOk, probe, ret, plain) ==
  LET db == getDBConnection(userID, projectID, openOk)
      sPlain == Stmt(db.inst, <<"INSERT", req.table, req.values>>, plain # DrvError)
  IN IF db.err # "" THEN db
     ELSE IF validateIdentifier(req.table) # "" THEN Finish(db, "invalid table name", <<>>, <<"validate">>, <<>>)
     ELSE IF \E c \in DOMAIN req.values : validateIdentifier(c) # ""
     THEN Finish(db, "invalid column name", <<>>, <<"validate">>, <<>>)
     ELSE Finish(db, "", <<[row_id |-> 0]>>, <<"validate", "probe", "insert">>, <<sPlain>>)

\* ProjectService.InsertRow; req = [table, values], values: column -> value
InsertRowOutcome(userID, projectID, req, openOk, probe, ret, plain) ==
  LET cols == DOMAIN req.values
      db   == AfterValidation(getDBConnection(userID, projectID, openOk))
      hasIDColumn == probe = "has_id"
      sProbe == Stmt(db.inst, <<"SELECT EXISTS information_schema.columns", req.table>>,
                     probe # "error")
      sRet   == Stmt(db.inst, <<"INSERT RETURNING id", req.table, req.values>>,
                     ret \in {"ok", "scan_error"})
      sPlain == Stmt(db.inst, <<"INSERT", req.table, req.values>>, plain # DrvError)
      plainSteps == <<"probe">> \o (IF hasIDColumn THEN <<"insert_returning">> ELSE <<>>)
                      \o <<"insert">>
      plainSent  == <<sProbe>> \o (IF hasIDColumn THEN <<sRet>> ELSE <<>>) \o <<sPlain>>
  IN IF validateIdentifier(req.table) # "" THEN ValidationFail("invalid table name")
     ELSE IF cols = {} THEN ValidationFail("values cannot be empty")
     ELSE IF \E c \in cols : validateIdentifier(c) # ""
     THEN ValidationFail("invalid column name")
     ELSE IF db.err # "" THEN db
     ELSE IF hasIDColumn /\ ret = "ok"
     THEN Finish(db, "", <<[row_id |-> GeneratedID]>>, <<"probe", "insert_returning">>,
                 <<sProbe, sRet>>)
     ELSE IF hasIDColumn /\ ret # "undefined_column"
     THEN Finish(db, "failed to insert row", <<>>, <<"probe", "insert_returning">>,
                 <<sProbe, sRet>>)
     ELSE IF plain = DrvError
     THEN Finish(db, "failed to insert row", <<>>, plainSteps, plainSent)
     ELSE IF plain = 0
     THEN Finish(db, "no rows were inserted", <<>>, plainSteps, plainSent)
     ELSE Finish(db, "", <<[row_id |-> 0]>>, plainSteps, plainSent)

\* strconv.ParseInt(s, 10, 64) succeeds: an optional sign and decimal digits
ParseIntOk(s) ==
  LET digits == IF s # <<>> /\ s[1] \in {"+", "-"} THEN Tail(s) ELSE s
  IN digits # <<>> /\ \A i \in 1..Len(digits) : digits[i] \in Digits

\* ProjectService.DeleteRow; req = [table_name]
DeleteRowOutcome(userID, projectID, req, rowID, openOk, drv) ==
  LET db == AfterValidation(getDBConnection(userID, projectID, openOk))
      sDelete == Stmt(db.inst, <<"DELETE WHERE customer_id = $1", req.table_name, rowID>>,
                      drv # DrvError)
  IN IF validateIdentifier(req.table_name) # "" THEN ValidationFail("invalid table name")
     ELSE IF db.err # "" THEN db
     ELSE IF ~ParseIntOk(rowID) THEN Finish(db, "invalid row id", <<>>, <<"parse">>, <<>>)
     ELSE IF drv = DrvError
     THEN Finish(db, "failed to delete row", <<>>, <<"parse", "exec">>, <<sDelete>>)
     ELSE IF drv = 0
     THEN Finish(db, "row not found", <<>>, <<"parse", "exec">>, <<sDelete>>)
     ELSE Finish(db, "", <<>>, <<"parse", "exec">>, <<sDelete>>)

\* ProjectService.AddColumn; req = [table_name, name, type, default];
\* ord: the ordinal position read back, 0 when that query fails
AddColumnOutcome(userID, projectID, req, openOk, drv, ord) ==
  LET db == AfterValidation(getDBConnection(userID, projectID, openOk))
      sAlter == Stmt(db.inst, <<"ALTER TABLE ADD COLUMN", req.table_name, req.name,
                                req.type, req.default>>, drv # DrvError)
      sOrd   == Stmt(db.inst, <<"SELECT ordinal_position", req.table_name, req.name>>,
                     ord # 0)
  IN IF validateIdentifier(req.table_name) # "" THEN ValidationFail("invalid table name")
     ELSE IF validateIdentifier(req.name) # "" THEN ValidationFail("invalid column name")
     ELSE IF req.type = <<>> THEN ValidationFail("column type cannot be empty")
     ELSE IF db.err # "" THEN db
     ELSE IF drv = DrvError
     THEN Finish(db, "failed to add column", <<>>, <<"exec">>, <<sAlter>>)
     ELSE Finish(db, "", <<[column_id |-> ord]>>, <<"exec", "ordinal">>, <<sAlter, sOrd>>)

\* ProjectService.DeleteColumn; req = [table_name]
DeleteColumnOutcome(userID, projectID, req, columnName, openOk, drv) ==
  LET db == AfterValidation(getDBConnection(userID, projectID, openOk))
      sDrop == Stmt(db.inst, <<"ALTER TABLE DROP COLUMN", req.table_name, columnName>>,
                    drv # DrvError)
  IN IF validateIdentifier(req.table_name) # "" THEN ValidationFail("invalid table name")
     ELSE IF validateIdentifier(columnName) # "" THEN ValidationFail("invalid column name")
     ELSE IF db.err # "" THEN db
     ELSE IF drv = DrvError
     THEN Finish(db, "failed to delete column", <<>>, <<"exec">>, <<sDrop>>)
     ELSE Finish(db, "", <<>>, <<"exec">>, <<sDrop>>)

\* answers of the tenant to a transaction: where it fails, if anywhere
TxAnswers == {"ok", "begin_fails", "exec_fails", "commit_fails"}

\* a transaction that is left open when its statement fails
InTransaction_NoRollback(sqlDb, stmt, tx, what) ==
  IF tx = "begin_fails"
  THEN Finish(sqlDb, "failed to start transaction", <<>>, <<"begin">>, <<>>)
  ELSE IF tx = "exec_fails"
  THEN Finish(sqlDb, what, <<>>, <<"begin", "exec">>, <<Stmt(sqlDb.inst, stmt, FALSE)>>)
  ELSE IF tx = "commit_fails"
  THEN Finish(sqlDb, "failed to commit transaction", <<>>, <<"begin", "exec", "commit">>,
              <<Stmt(sqlDb.inst, stmt, TRUE)>>)
  ELSE Finish(sqlDb, "", <<[rows_affected |-> 0]>>, <<"begin", "exec", "commit">>,
              <<Stmt(sqlDb.inst, stmt, TRUE)>>)

\* the transaction both table operations run around their single statement
InTransaction(sqlDb, stmt, tx, what) ==
  IF tx = "begin_fails"
  THEN Finish(sqlDb, "failed to start transaction", <<>>, <<"begin">>, <<>>)
  ELSE IF tx = "exec_fails"
  THEN Finish(sqlDb, what, <<>>, <<"begin", "exec", "rollback">>,
              <<Stmt(sqlDb.inst, stmt, FALSE)>>)
  ELSE IF tx = "commit_fails"
  THEN Finish(sqlDb, "failed to commit transaction", <<>>, <<"begin", "exec", "commit">>,
              <<Stmt(sqlDb.inst, stmt, TRUE)>>)
  ELSE Finish(sqlDb, "", <<[rows_affected |-> 0]>>, <<"begin", "exec", "commit">>,
              <<Stmt(sqlDb.inst, stmt, TRUE)>>)

\* TableService.CreateTable
CreateTableOutcome(req, userId, projectId, openOk, tx) ==
  LET sqlDb == AfterValidation(openDbConnection(userId, projectId, openOk))
      schema == IF req.schema = <<>> THEN IdPublic ELSE req.schema
      query == <<"CREATE TABLE", schema, req.table, req.columns, req.foreign_keys>>
  IN IF validateCreateTableRequest(req) # "" THEN ValidationFail("validation failed")
     ELSE IF sqlDb.err # "" THEN sqlDb
     ELSE InTransaction(sqlDb, query, tx, "failed to create table")

\* TableService.DeleteTable with TableRepository.Delete
DeleteTableOutcome(req, userId, projectId, openOk, tx) ==
  LET sqlDb == AfterValidation(openDbConnection(userId, projectId, openOk))
      query == <<"DROP TABLE CASCADE", req.schema, req.table>>
  IN IF ~isValidIdentifier(req.schema) THEN ValidationFail("invalid schema name")
     ELSE IF ~isValidIdentifier(req.table) THEN ValidationFail("invalid table name")
     ELSE IF sqlDb.err # "" THEN sqlDb
     ELSE InTransaction(sqlDb, query, tx, "failed to delete table")

(***************************************************************************)
(* Initial state and the collaborators' writes to the backing state.       *)
(***************************************************************************)
Idle ==
  [op |-> "none", user |-> NoUser, project |-> "", input |-> <<>>, audited |-> TRUE,
   log |-> <<>>]
    @@ Outcome("", <<>>, <<>>, 0, 0, <<>>, <<>>, <<>>, 0, 0)

Init ==
  /\ projects = [p \in Projects |-> IF p = "p1" THEN "u1" ELSE NoUser]
  /\ instances = <<>>
  /\ creds = <<>>
  /\ registry = [c \in Containers |-> NoIP]
  /\ redis = [c \in Containers |-> NoIP]
  /\ history = <<>>
  /\ last = Idle

Rows == Len(instances) + Len(creds) + Len(history)

\* DatabaseInstanceRepository.Create: a new row, created_at = now
InstanceCreate(projectID, status, containerID, port) ==
  /\ last.op = "none"
  /\ Rows < MaxRows
  /\ projects[projectID] # NoUser
  /\ instances' = Append(instances,
        [project |-> projectID, status |-> status, container |-> containerID,
         port |-> port, created |-> Len(instances) + 1])
  /\ UNCHANGED <<projects, creds, registry, redis, history, last>>

\* DatabaseCredentialRepository.Create: a new row, created_at = now
CredentialCreate(instanceID, username, cipher) ==
  /\ last.op = "none"
  /\ Rows < MaxRows
  /\ instanceID \in 1..Len(instances)
  /\ creds' = Append(creds,
        [instance |-> instanceID, username |-> username, cipher |-> cipher,
         created |-> Len(creds) + 1])
  /\ UNCHANGED <<projects, instances, registry, redis, history, last>>

\* the orchestrator learns, changes or (on restart) forgets a container's IP
RegistrySet(containerID, ip) ==
  /\ last.op = "none"
  /\ registry[containerID] # ip
  /\ registry' = [registry EXCEPT ![containerID] = ip]
  /\ UNCHANGED <<projects, instances, creds, redis, history, last>>

\* the orchestrator persists or drops a container's IP in Redis
RedisSet(containerID, ip) ==
  /\ last.op = "none"
  /\ redis[containerID] # ip
  /\ redis' = [redis EXCEPT ![containerID] = ip]
  /\ UNCHANGED <<projects, instances, creds, registry, history, last>>

(***************************************************************************)
(* Gateway operations.                                                     *)
(***************************************************************************)
Has(seq, x) == \E i \in 1..Len(seq) : seq[i] = x

QSelect == <<"S","E","L","E","C","T"," ","1">>

QDrop == <<"d","r","o","p"," ","d","a","t","a","b","a","s","e"," ","x">>

Queries == {QSelect, QDrop}

\* the call returns: op, caller and request are recorded with the outcome;
\* log holds the lines the call wrote to the process log: neither the
\* services nor the repositories of the Gateway write any
Returned(op, userID, projectID, input, audited, o) ==
  [op |-> op, user |-> userID, project |-> projectID, input |-> input,
   audited |-> audited, log |-> <<>>] @@ o

\* The tenant and the platform database answer only what a call asks them:
\* an answer is drawn when the call reaches the step that asks for it.
Asked(reached, answers, unasked) == IF reached THEN answers ELSE {unasked}

\* an ExecuteQuery that tells its caller of a failed history write
ExecuteQuery_AuditFailureSurfaced(userID, query, projectId) ==
  /\ last.op = "none"
  /\ LET far == ExecuteQueryOutcome(userID, query, projectId, TRUE, 0)
     IN \E openOk \in Asked(Has(far.steps, "open"), BOOLEAN, TRUE) :
        \E drv \in Asked(openOk /\ Has(far.steps, "exec"), DriverAnswers, 0) :
        \E auditOk \in Asked(far.audit # <<>>, BOOLEAN, TRUE) :
          LET o == ExecuteQueryOutcome(userID, query, projectId, openOk, drv)
              told == IF auditOk THEN o
                      ELSE [o EXCEPT !.err = "failed to save query history",
                                     !.result = <<>>]
          IN /\ (o.audit # <<>> /\ auditOk) => Rows < MaxRows
             /\ history' = IF auditOk THEN history \o o.audit ELSE history
             /\ last' = Returned("ExecuteQuery", userID, projectId, query, auditOk, told)
             /\ UNCHANGED <<projects, instances, creds, registry, redis>>

\* QueryService.ExecuteQuery
\*   openOk: sql.Open succeeds; drv: the driver's answer to the statement;
\*   auditOk: the INSERT into query_history succeeds
ExecuteQuery(userID, query, projectId) ==
  /\ last.op = "none"
  /\ LET far == ExecuteQueryOutcome(userID, query, projectId, TRUE, 0)
     IN \E openOk \in Asked(Has(far.steps, "open"), BOOLEAN, TRUE) :
        \E drv \in Asked(openOk /\ Has(far.steps, "exec"), DriverAnswers, 0) :
        \E auditOk \in Asked(far.audit # <<>>, BOOLEAN, TRUE) :
          LET o == ExecuteQueryOutcome(userID, query, projectId, openOk, drv)
          IN /\ (o.audit # <<>> /\ auditOk) => Rows < MaxRows
             /\ history' = IF auditOk THEN history \o o.audit ELSE history
             /\ last' = Returned("ExecuteQuery", userID, projectId, query, auditOk, o)
             /\ UNCHANGED <<projects, instances, creds, registry, redis>>

\* a structured operation returns; none of them touches the platform database
Structured(op, userID, projectID, input, o) ==
  /\ last' = Returned(op, userID, projectID, input, TRUE, o)
  /\ UNCHANGED <<projects, instances, creds, registry, redis, history>>

IdOrders == <<"o","r","d","e","r","s">>

IdName == <<"n","a","m","e">>

IdBad == <<"1","b","a","d">>

TyText == <<"t","e","x","t">>

InsertRequests ==
  {[table |-> IdOrders, values |-> (IdName :> "v")],
   [table |-> IdOrders, values |-> (IdBad :> "v")]}

\*   probe: the answer to the information_schema query; ret: the answer to
\*   INSERT ... RETURNING id; plain: the answer to the plain INSERT
InsertRow(userID, projectID, req) ==
  /\ last.op = "none"
  /\ LET far == InsertRowOutcome(userID, projectID, req, TRUE, "no_id", "ok", 1)
     IN \E openOk \in Asked(Has(far.steps, "open"), BOOLEAN, TRUE) :
        \E probe \in Asked(openOk /\ Has(far.steps, "probe"), ProbeAnswers, "no_id") :
        \E ret \in Asked(probe = "has_id", ReturningAnswers, "ok") :
        \E plain \in Asked(openOk /\ Has(far.steps, "probe")
                             /\ (probe = "has_id" => ret = "undefined_column"),
                           DriverAnswers, 0) :
          Structured("InsertRow", userID, projectID, req,
                     InsertRowOutcome(userID, projectID, req, openOk, probe, ret, plain))

RowIDs == {<<"7">>, <<"x">>}

TableRequests == {[table_name |-> IdOrders], [table_name |-> IdBad]}

DeleteRow(userID, projectID, req, rowID) ==
  /\ last.op = "none"
  /\ LET far == DeleteRowOutcome(userID, projectID, req, rowID, TRUE, 1)
     IN \E openOk \in Asked(Has(far.steps, "open"), BOOLEAN, TRUE) :
        \E drv \in Asked(openOk /\ Has(far.steps, "exec"), DriverAnswers, 0) :
          Structured("DeleteRow", userID, projectID, [req |-> req, rowID |-> rowID],
                     DeleteRowOutcome(userID, projectID, req, rowID, openOk, drv))

AddColumnRequests ==
  {[table_name |-> IdOrders, name |-> IdName, type |-> TyText, default |-> <<>>],
   [table_name |-> IdOrders, name |-> IdBad, type |-> TyText, default |-> <<>>]}

\*   ord: the ordinal position read back, 0 when that query fails
AddColumn(userID, projectID, req) ==
  /\ last.op = "none"
  /\ LET far == AddColumnOutcome(userID, projectID, req, TRUE, 1, 1)
     IN \E openOk \in Asked(Has(far.steps, "open"), BOOLEAN, TRUE) :
        \E drv \in Asked(openOk /\ Has(far.steps, "exec"), DriverAnswers, 0) :
        \E ord \in Asked(openOk /\ Has(far.steps, "exec") /\ drv # DrvError, 0..1, 0) :
          Structured("AddColumn", userID, projectID, req,
                     AddColumnOutcome(userID, projectID, req, openOk, drv, ord))

ColumnNames == {IdName, IdBad}

DeleteColumn(userID, projectID, req, columnName) ==
  /\ last.op = "none"
  /\ LET far == DeleteColumnOutcome(userID, projectID, req, columnName, TRUE, 1)
     IN \E openOk \in Asked(Has(far.steps, "open"), BOOLEAN, TRUE) :
        \E drv \in Asked(openOk /\ Has(far.steps, "exec"), DriverAnswers, 0) :
          Structured("DeleteColumn", userID, projectID,
                     [req |-> req, columnName |-> columnName],
                     DeleteColumnOutcome(userID, projectID, req, columnName, openOk, drv))

CreateTableRequests ==
  {[schema |-> IdPublic, table |-> t, columns |-> <<[name |-> IdName, type |-> TyText]>>,
    foreign_keys |-> <<>>] : t \in {IdOrders, IdBad}}

\*   tx: where the tenant fails the transaction, if anywhere
CreateTable(req, userId, projectId) ==
  /\ last.op = "none"
  /\ LET far == CreateTableOutcome(req, userId, projectId, TRUE, "ok")
     IN \E openOk \in Asked(Has(far.steps, "open"), BOOLEAN, TRUE) :
        \E tx \in Asked(openOk /\ Has(far.steps, "begin"), TxAnswers, "ok") :
          Structured("CreateTable", userId, projectId, req,
                     CreateTableOutcome(req, userId, projectId, openOk, tx))

DeleteTableRequests == {[schema |-> IdPublic, table |-> t] : t \in {IdOrders, IdBad}}

DeleteTable(req, userId, projectId) ==
  /\ last.op = "none"
  /\ LET far == DeleteTableOutcome(req, userId, projectId, TRUE, "ok")
     IN \E openOk \in Asked(Has(far.steps, "open"), BOOLEAN, TRUE) :
        \E tx \in Asked(openOk /\ Has(far.steps, "begin"), TxAnswers, "ok") :
          Structured("DeleteTable", userId, projectId, req,
                     DeleteTableOutcome(req, userId, projectId, openOk, tx))

\* who calls for which project: the owner of p1, another user, and a caller
\* naming a project that does not exist
Callers == {<<"u1", "p1">>, <<"u2", "p1">>, <<"u1", "p2">>}

\* the handler has answered; the next request is taken
Return ==
  /\ last.op # "none"
  /\ last' = Idle
  /\ UNCHANGED <<projects, instances, creds, registry, redis, history>>

\* the seven Gateway operations, for every caller and request of the model
Calls ==
  \/ \E c \in Callers, q \in Queries : ExecuteQuery(c[1], q, c[2])
  \/ \E c \in Callers, req \in InsertRequests : InsertRow(c[1], c[2], req)
  \/ \E c \in Callers, req \in TableRequests, rowID \in RowIDs :
        DeleteRow(c[1], c[2], req, rowID)
  \/ \E c \in Callers, req \in AddColumnRequests : AddColumn(c[1], c[2], req)
  \/ \E c \in Callers, req \in TableRequests, col \in ColumnNames :
        DeleteColumn(c[1], c[2], req, col)
  \/ \E c \in Callers, req \in CreateTableRequests : CreateTable(req, c[1], c[2])
  \/ \E c \in Callers, req \in DeleteTableRequests : DeleteTable(req, c[1], c[2])

Next ==
  \/ \E k \in InstanceKinds : InstanceCreate("p1", k.status, k.container, k.port)
  \/ \E i \in 1..Len(instances), u \in Usernames :
        \/ CredentialCreate(i, u, EncryptString(Secrets[Len(creds) + 1]))
        \/ CredentialCreate(i, u, Undecryptable)
  \/ \E c \in Containers, ip \in RegistryIPs \cup {NoIP} : RegistrySet(c, ip)
  \/ \E c \in Containers, ip \in RedisIPs \cup {NoIP} : RedisSet(c, ip)
  \/ Calls
  \/ Return

Spec == Init /\ [][Next]_vars

(***************************************************************************)
(* Routing over every instance status: the orchestrator has registered the *)
(* container, instances are fully configured and come in every status.     *)
(***************************************************************************)
InitRouting ==
  /\ projects = [p \in Projects |-> IF p = "p1" THEN "u1" ELSE NoUser]
  /\ instances = <<>>
  /\ creds = <<>>
  /\ registry = [c \in Containers |-> "10.0.0.1"]
  /\ redis = [c \in Containers |-> NoIP]
  /\ history = <<>>
  /\ last = Idle

NextRouting ==
  \/ \E st \in Statuses, c \in Containers : InstanceCreate("p1", st, c, PostgresPort)
  \/ \E i \in 1..Len(instances), u \in Usernames :
        CredentialCreate(i, u, EncryptString(Secrets[Len(creds) + 1]))
  \/ Calls
  \/ Return

SpecRouting == InitRouting /\ [][NextRouting]_vars

(***************************************************************************)
(* Requests of every shape against one routable project: p1 of u1 has a    *)
(* running, fully configured instance with a credential and a registered   *)
(* container; the callers send well-formed and malformed requests.         *)
(***************************************************************************)
IdHyphen == <<"a","-","b">>

IdDollar == <<"a","$">>

TyBlob == <<"b","l","o","b">>

TyVarchar == <<"v","a","r","c","h","a","r","(","5",")">>

AnyNames == {IdOrders, IdBad, IdHyphen, IdDollar}

AnyTypes == {TyText, TyVarchar, TyBlob, <<>>}

AnyInsertRequests ==
  {[table |-> t, values |-> v] :
     t \in AnyNames,
     v \in {(IdName :> "v"), (IdBad :> "v"), (IdName :> "v") @@ (IdHyphen :> "w")}}

AnyTableRequests == {[table_name |-> t] : t \in AnyNames}

AnyAddColumnRequests ==
  {[table_name |-> t, name |-> n, type |-> ty, default |-> <<>>] :
     t \in {IdOrders, IdBad}, n \in {IdName, IdBad, IdHyphen}, ty \in AnyTypes}

AnyColumnNames == {IdName, IdBad, IdHyphen}

\* a column of a CreateTable request; only name and type are validated
Col(name, type) == [name |-> name, type |-> type]

AnyColumnLists ==
  {<<>>, <<Col(IdName, TyText)>>, <<Col(IdBad, TyText)>>, <<Col(IdName, TyBlob)>>,
   <<Col(IdName, TyVarchar), Col(IdDollar, TyText)>>,
   <<Col(IdName, TyText), Col(IdHyphen, TyText)>>}

ActCascade == <<"C","A","S","C","A","D","E">>

ActSetNull == <<"S","E","T"," ","N","U","L","L">>

ActNo == <<"N","O">>

ActHostile == <<"C","A","S","C","A","D","E",")",";"," ","D","R","O","P"," ","T","A","B","L","E"," ","t",";"," ","-","-">>

\* a foreign-key reference without actions
FkRef(local, foreign) ==
  [local_column |-> local, foreign_column |-> foreign, on_update |-> <<>>, on_delete |-> <<>>]

\* a foreign-key reference with both actions
FkAct(onUpdate, onDelete) ==
  [local_column |-> IdName, foreign_column |-> IdName,
   on_update |-> onUpdate, on_delete |-> onDelete]

AnyForeignKeys ==
  {<<>>,
   <<[schema |-> IdPublic, table |-> IdOrders, references |-> <<FkRef(IdName, IdName)>>]>>,
   <<[schema |-> IdPublic, table |-> IdOrders, references |-> <<FkRef(IdName, IdBad)>>]>>,
   <<[schema |-> IdBad, table |-> IdOrders, references |-> <<FkRef(IdName, IdName)>>]>>,
   <<[schema |-> IdPublic, table |-> IdOrders,
      references |-> <<FkAct(ActCascade, ActSetNull)>>]>>,
   <<[schema |-> IdPublic, table |-> IdOrders,
      references |-> <<FkAct(ActNo, <<>>)>>]>>,
   <<[schema |-> IdPublic, table |-> IdOrders,
      references |-> <<FkRef(IdName, IdName), FkAct(<<>>, ActHostile)>>]>>}

AnyCreateTableRequests ==
  {[schema |-> s, table |-> t, columns |-> cs, foreign_keys |-> fk] :
     s \in {IdPublic, <<>>, IdBad}, t \in {IdOrders, IdBad},
     cs \in AnyColumnLists, fk \in AnyForeignKeys}

AnyDeleteTableRequests ==
  {[schema |-> s, table |-> t] : s \in {IdPublic, <<>>, IdBad}, t \in AnyNames}

InitRequests ==
  /\ projects = [p \in Projects |-> IF p = "p1" THEN "u1" ELSE NoUser]
  /\ instances = <<[project |-> "p1", status |-> "running", container |-> "c1",
                    port |-> PostgresPort, created |-> 1]>>
  /\ creds = <<[instance |-> 1, username |-> "admin", cipher |-> EncryptString("s1"),
                created |-> 1]>>
  /\ registry = [c \in Containers |-> "10.0.0.1"]
  /\ redis = [c \in Containers |-> NoIP]
  /\ history = <<>>
  /\ last = Idle

\* an accepted text in lower case with a comment, and a rejected one that
\* hides nothing behind its comment
QCommented == <<"s","e","l","e","c","t"," ","1"," ","/","*"," ","d","r","o","p"," ","s","c","h","e","m","a"," ","*","/">>

QTruncate == <<"-","-"," ","c","\n","t","r","u","n","c","a","t","e"," ","t">>

AnyQueries == Queries \cup {QCommented, QTruncate}

NextRequests ==
  \/ \E c \in Callers, q \in AnyQueries : ExecuteQuery(c[1], q, c[2])
  \/ \E c \in Callers, req \in AnyInsertRequests : InsertRow(c[1], c[2], req)
  \/ \E c \in Callers, req \in AnyTableRequests, id \in RowIDs :
        DeleteRow(c[1], c[2], req, id)
  \/ \E c \in Callers, req \in AnyAddColumnRequests : AddColumn(c[1], c[2], req)
  \/ \E c \in Callers, req \in AnyTableRequests, col \in AnyColumnNames :
        DeleteColumn(c[1], c[2], req, col)
  \/ \E c \in Callers, req \in AnyCreateTableRequests : CreateTable(req, c[1], c[2])
  \/ \E c \in Callers, req \in AnyDeleteTableRequests : DeleteTable(req, c[1], c[2])
  \/ Return

SpecRequests == InitRequests /\ [][NextRequests]_vars

(***************************************************************************)
(* The life of a project: provisioning, use and deletion.  Row ids are     *)
(* indexes, so a row of database_instances or database_credentials that a  *)
(* cascading delete removes leaves a hole no lookup finds.                 *)
(***************************************************************************)
GoneInstance ==
  [project |-> "", status |-> "deleted", container |-> NoContainer, port |-> NoPort,
   created |-> 0]

GoneCredential == [instance |-> 0, username |-> "", cipher |-> Undecryptable, created |-> 0]

\* DatabaseInstanceRepository.GetByProjectID: the newest instance, 0 when none
GetByProjectID(projectID) ==
  LET mine == {i \in 1..Len(instances) : instances[i].project = projectID}
  IN IF mine = {} THEN 0
     ELSE CHOOSE i \in mine : \A j \in mine : instances[j].created <= instances[i].created

\* where a CreateProject ends: at a write or at the orchestrator call that
\* fails, or at its end; "container_fails_unmarked" is a failed container
\* whose status update to failed fails as well (its error is dropped)
CreateProjectPaths ==
  {"project_fails", "instance_fails", "container_fails", "container_fails_unmarked",
   "container_id_fails", "status_fails", "ok"}

\* the error CreateProject returns on a path, "" for nil
CreateProjectError(path) ==
  CASE path = "project_fails" -> "failed to save project to database"
    [] path = "instance_fails" -> "failed to create database instance"
    [] path \in {"container_fails", "container_fails_unmarked"} -> "failed to create container"
    [] path = "container_id_fails" -> "failed to update database instance container ID"
    [] path = "status_fails" -> "failed to update database instance status"
    [] OTHER -> ""

\* a CreateProject that marks the instance running before it stores the
\* container id
CreateProject_RunningFirst(userID) ==
  /\ last.op = "none"
  /\ Rows + 2 <= MaxRows
  /\ \E p \in Projects, c \in Containers, path \in CreateProjectPaths :
     \E saved \in Asked(path = "ok", BOOLEAN, FALSE) :
       LET id == Len(instances) + 1
           made == path \in {"container_id_fails", "status_fails", "ok"}
           row == path \notin {"project_fails", "instance_fails"}
           status == CASE path = "container_fails" -> "failed"
                       [] path \in {"container_id_fails", "ok"} -> "running"
                       [] OTHER -> "creating"
           steps ==
             CASE path = "project_fails" -> <<"project_row_error">>
               [] path = "instance_fails" ->
                    <<"project_row", "instance_row_error", "project_delete">>
               [] path = "container_fails" ->
                    <<"project_row", "instance_row", "container_error", "status_failed">>
               [] path = "container_fails_unmarked" ->
                    <<"project_row", "instance_row", "container_error", "status_failed_error">>
               [] path = "container_id_fails" ->
                    <<"project_row", "instance_row", "container", "status_running", "container_id_error">>
               [] path = "status_fails" ->
                    <<"project_row", "instance_row", "container", "status_running_error">>
               [] OTHER ->
                    <<"project_row", "instance_row", "container", "status_running", "container_id">>
                      \o <<IF saved THEN "credential_row" ELSE "credential_row_error">>
       IN /\ projects[p] = NoUser
          /\ \A i \in 1..Len(instances) : instances[i].container # c
          /\ projects' = IF row THEN [projects EXCEPT ![p] = userID] ELSE projects
          /\ instances' = IF row
                          THEN Append(instances,
                                 [project |-> p, status |-> status,
                                  container |-> IF path = "ok" THEN c
                                                ELSE NoContainer,
                                  port |-> PostgresPort, created |-> id])
                          ELSE instances
          /\ registry' = IF made THEN [registry EXCEPT ![c] = "10.0.0.1"] ELSE registry
          /\ creds' = IF saved
                      THEN Append(creds,
                             [instance |-> id, username |-> "admin",
                              cipher |-> EncryptString(Secrets[Len(creds) + 1]),
                              created |-> Len(creds) + 1])
                      ELSE creds
          /\ last' = Returned("CreateProject", userID, p, <<>>, TRUE,
                       Outcome(CreateProjectError(path),
                               IF path = "ok" THEN <<[project |-> p]>> ELSE <<>>,
                               steps, IF row THEN id ELSE 0, 0, <<>>, <<>>, <<>>, 0, 0))
          /\ UNCHANGED <<redis, history>>

\* ProjectService.CreateProject for a postgres project
\*   path: where the call ends; saved: the credential is encrypted and stored
\*   (a failure of either is logged and the call still succeeds).  The row of
\*   a project whose instance row cannot be created is deleted again.
CreateProject(userID) ==
  /\ last.op = "none"
  /\ Rows + 2 <= MaxRows
  /\ \E p \in Projects, c \in Containers, path \in CreateProjectPaths :
     \E saved \in Asked(path = "ok", BOOLEAN, FALSE) :
       LET id == Len(instances) + 1
           made == path \in {"container_id_fails", "status_fails", "ok"}
           row == path \notin {"project_fails", "instance_fails"}
           status == CASE path = "container_fails" -> "failed"
                       [] path = "ok" -> "running"
                       [] OTHER -> "creating"
           steps ==
             CASE path = "project_fails" -> <<"project_row_error">>
               [] path = "instance_fails" ->
                    <<"project_row", "instance_row_error", "project_delete">>
               [] path = "container_fails" ->
                    <<"project_row", "instance_row", "container_error", "status_failed">>
               [] path = "container_fails_unmarked" ->
                    <<"project_row", "instance_row", "container_error", "status_failed_error">>
               [] path = "container_id_fails" ->
                    <<"project_row", "instance_row", "container", "container_id_error">>
               [] path = "status_fails" ->
                    <<"project_row", "instance_row", "container", "container_id", "status_running_error">>
               [] OTHER ->
                    <<"project_row", "instance_row", "container", "container_id", "status_running">>
                      \o <<IF saved THEN "credential_row" ELSE "credential_row_error">>
       IN /\ projects[p] = NoUser
          /\ \A i \in 1..Len(instances) : instances[i].container # c
          /\ projects' = IF row THEN [projects EXCEPT ![p] = userID] ELSE projects
          /\ instances' = IF row
                          THEN Append(instances,
                                 [project |-> p, status |-> status,
                                  container |-> IF path \in {"status_fails", "ok"} THEN c
                                                ELSE NoContainer,
                                  port |-> PostgresPort, created |-> id])
                          ELSE instances
          /\ registry' = IF made THEN [registry EXCEPT ![c] = "10.0.0.1"] ELSE registry
          /\ creds' = IF saved
                      THEN Append(creds,
                             [instance |-> id, username |-> "admin",
                              cipher |-> EncryptString(Secrets[Len(creds) + 1]),
                              created |-> Len(creds) + 1])
                      ELSE creds
          /\ last' = Returned("CreateProject", userID, p, <<>>, TRUE,
                       Outcome(CreateProjectError(path),
                               IF path = "ok" THEN <<[project |-> p]>> ELSE <<>>,
                               steps, IF row THEN id ELSE 0, 0, <<>>, <<>>, <<>>, 0, 0))
          /\ UNCHANGED <<redis, history>>

\* ProjectService.DeleteProjectByIDAndUserID with the cascades of the schema:
\* projects -> database_instances -> database_credentials, query_history
\*   stopped: the orchestrator stops the container and forgets its address
DeleteProjectByIDAndUserID(projectID, userID) ==
  /\ last.op = "none"
  /\ LET project == GetByIDAndUserID(projectID, userID)
         dbInstance == GetByProjectID(projectID)
         c == IF dbInstance = 0 THEN NoContainer ELSE instances[dbInstance].container
         gone == {i \in 1..Len(instances) : instances[i].project = projectID}
     IN IF project = ""
        THEN /\ last' = Returned("DeleteProject", userID, projectID, <<>>, TRUE,
                          Outcome("project not found or access denied", <<>>, <<"project">>,
                                  0, 0, <<>>, <<>>, <<>>, 0, 0))
             /\ UNCHANGED <<projects, instances, creds, registry, redis, history>>
        ELSE \E stopped \in Asked(c # NoContainer, BOOLEAN, FALSE) :
             /\ registry' = IF stopped THEN [registry EXCEPT ![c] = NoIP] ELSE registry
             /\ redis' = IF stopped THEN [redis EXCEPT ![c] = NoIP] ELSE redis
             /\ projects' = [projects EXCEPT ![projectID] = NoUser]
             /\ instances' = [i \in 1..Len(instances) |->
                                IF i \in gone THEN GoneInstance ELSE instances[i]]
             /\ creds' = [k \in 1..Len(creds) |->
                            IF creds[k].instance \in gone THEN GoneCredential ELSE creds[k]]
             /\ history' = SelectSeq(history, LAMBDA h : h.db_instance_id \notin gone)
             /\ last' = Returned("DeleteProject", userID, projectID, <<>>, TRUE,
                          Outcome("", <<>>, <<"project", "instance">>
                                    \o (IF c # NoContainer THEN <<"stop">> ELSE <<>>)
                                    \o <<"delete">>,
                                  dbInstance, 0, <<>>, <<>>, <<>>, 0, 0))

NextLifecycle ==
  \/ \E u \in {"u1", "u2"} : CreateProject(u)
  \/ \E c \in Callers : DeleteProjectByIDAndUserID(c[2], c[1])
  \/ Calls
  \/ Return

SpecLifecycle == Init /\ [][NextLifecycle]_vars

(***************************************************************************)
(* The validators and the statement builder as functions of their input:   *)
(* the input is drawn at the start and the function is applied to it.      *)
(* A query text is given as its pieces: code, block comments and line      *)
(* comments.                                                               *)
(***************************************************************************)
MaxPieces == 3

TxSelect == <<"s","e","l","e","c","t"," ","1">>

TxDropDatabase == <<"d","r","o","p"," ","d","a","t","a","b","a","s","e"," ","x">>

TxDropSchema == <<"D","r","o","p"," ","S","c","h","e","m","a"," ","s">>

TxTruncate == <<"T","R","U","N","C","A","T","E"," ","t">>

TxAlterDatabase == <<"a","l","t","e","r"," ","D","A","T","A","B","A","S","E"," ","d">>

TxCreateDatabase == <<"C","r","e","a","t","e"," ","d","a","t","a","b","a","s","e"," ","d">>

TxCreateSchema == <<"c","r","e","a","t","e"," ","s","c","h","e","m","a"," ","s">>

TxDelete == <<"d","e","l","e","t","e"," ","f","r","o","m"," ","o","r","d","e","r","s">>

TxDeleteNowhere == <<"D","e","l","e","t","e"," ","F","r","o","m"," ","n","o","w","h","e","r","e">>

TxWhere == <<" ","w","h","e","r","e"," ","i","d"," ","="," ","5">>

TxSemi == <<";">>

TxSpace == <<" ">>

TxNote == <<"d","r","o","p"," ","d","a","t","a","b","a","s","e"," ","x">>

TxNoteWhere == <<";"," ","w","h","e","r","e">>

CodeTexts ==
  {TxSelect, TxDropDatabase, TxDropSchema, TxTruncate, TxAlterDatabase, TxCreateDatabase,
   TxCreateSchema, TxDelete, TxDeleteNowhere, TxWhere, TxSemi, TxSpace}

QueryPieces ==
  {[kind |-> "code", text |-> t] : t \in CodeTexts}
    \cup {[kind |-> "block", text |-> TxNote], [kind |-> "line", text |-> TxNote],
          [kind |-> "block", text |-> TxNoteWhere]}

\* the text of a piece as it stands in the query
PieceText(piece) ==
  CASE piece.kind = "block" -> <<"/", "*">> \o piece.text \o <<"*", "/">>
    [] piece.kind = "line" -> <<"-", "-">> \o piece.text \o <<"\n">>
    [] OTHER -> piece.text

RECURSIVE Render(_)
Render(pieces) ==
  IF pieces = <<>> THEN <<>> ELSE PieceText(Head(pieces)) \o Render(Tail(pieces))

QueryInputs ==
  {[kind |-> "query", pieces |-> ps] :
     ps \in UNION {[1..n -> QueryPieces] : n \in 1..MaxPieces}}

\* the function's verdict is what the call reports
Verdict(op, err, result) ==
  Returned(op, NoUser, "", last.input, TRUE,
           Outcome(err, result, <<>>, 0, 0, <<>>, <<>>, <<>>, 0, 0))

\* QueryService.ValidateSQLQuery applied to the drawn text
ValidateQuery ==
  /\ last.op = "none"
  /\ last.input # <<>>
  /\ last.input.kind = "query"
  /\ last' = Verdict("ValidateSQLQuery", ValidateSQLQuery(Render(last.input.pieces)), <<>>)
  /\ UNCHANGED <<projects, instances, creds, registry, redis, history>>

MaxIdentChars == 3

IdentAlphabet == {"a", "Z", "_", "1", "$", "-", ";", "'", "\"", "(", ")"}

\* a name of n letters
LongName(n) == [i \in 1..n |-> "a"]

IdentifierInputs ==
  {[kind |-> "identifier", name |-> x] :
     x \in UNION {[1..n -> IdentAlphabet] : n \in 0..MaxIdentChars}
            \cup {LongName(MaxIdentLen), LongName(MaxIdentLen + 1)}}

\* validateIdentifier (ProjectService) and isValidIdentifier (TableService)
\* applied to the drawn name
ValidateIdentifiers ==
  /\ last.op = "none"
  /\ last.input # <<>>
  /\ last.input.kind = "identifier"
  /\ last' = Verdict("validateIdentifier", validateIdentifier(last.input.name),
                     <<[valid |-> isValidIdentifier(last.input.name)]>>)
  /\ UNCHANGED <<projects, instances, creds, registry, redis, history>>

MaxExtraColumns == 1

IdId == <<"i","d">>

TyInt == <<"I","N","T">>

TyVarchar50 == <<"V","A","R","C","H","A","R","(","5","0",")">>

LitZero == <<"0">>

LitText == <<"'","x","'">>

\* the first column: every combination of the flags, default absent, empty
\* and given
FirstColumns ==
  {[name |-> IdId, type |-> TyInt, default |-> d, primary |-> p, is_unique |-> u,
    is_identity |-> g, nullable |-> n] :
     d \in {<<>>, <<<<>>>>, <<LitZero>>}, p \in BOOLEAN, u \in BOOLEAN, g \in BOOLEAN,
     n \in BOOLEAN}

\* the columns that follow it: valid ones and one with an invalid name
OtherColumns ==
  {[name |-> IdName, type |-> TyVarchar50, default |-> <<>>, primary |-> FALSE,
    is_unique |-> FALSE, is_identity |-> FALSE, nullable |-> FALSE],
   [name |-> IdDollar, type |-> TyText, default |-> <<LitText>>, primary |-> FALSE,
    is_unique |-> TRUE, is_identity |-> FALSE, nullable |-> TRUE],
   [name |-> IdBad, type |-> TyInt, default |-> <<>>, primary |-> FALSE,
    is_unique |-> FALSE, is_identity |-> FALSE, nullable |-> TRUE]}

BuilderForeignKeys ==
  {<<>>,
   <<[schema |-> IdPublic, table |-> IdOrders,
      references |-> <<[local_column |-> IdId, foreign_column |-> IdId,
                        on_update |-> <<>>, on_delete |-> ActCascade]>>]>>}

BuilderInputs ==
  {[kind |-> "table",
    req |-> [schema |-> sc, table |-> IdOrders, columns |-> <<c>> \o more,
             foreign_keys |-> fk]] :
     sc \in {IdPublic, <<>>}, c \in FirstColumns,
     more \in UNION {[1..n -> OtherColumns] : n \in 0..MaxExtraColumns},
     fk \in BuilderForeignKeys}

\* TableService.validateCreateTableRequest and, for a valid request,
\* parseCreateQuery applied to the drawn request
BuildCreateQuery ==
  /\ last.op = "none"
  /\ last.input # <<>>
  /\ last.input.kind = "table"
  /\ LET err == validateCreateTableRequest(last.input.req)
     IN last' = Verdict("parseCreateQuery", err,
                        IF err = "" THEN <<parseCreateQuery(last.input.req)>> ELSE <<>>)
  /\ UNCHANGED <<projects, instances, creds, registry, redis, history>>

InitValidators ==
  /\ projects = [p \in Projects |-> IF p = "p1" THEN "u1" ELSE NoUser]
  /\ instances = <<>>
  /\ creds = <<>>
  /\ registry = [c \in Containers |-> NoIP]
  /\ redis = [c \in Containers |-> NoIP]
  /\ history = <<>>
  /\ \E x \in QueryInputs \cup IdentifierInputs \cup BuilderInputs :
       last = [Idle EXCEPT !.input = x]

NextValidators ==
  \/ ValidateQuery
  \/ ValidateIdentifiers
  \/ BuildCreateQuery

SpecValidators == InitValidators /\ [][NextValidators]_vars

(***************************************************************************)
(* What reaches the driver as a function of the request: the statement     *)
(* text of InsertRow and AddColumn, and the path free-form text takes.     *)
(***************************************************************************)
DigitJ == <<"0","1","2","3","4","5","6","7","8","9">>

\* the decimal text of a natural number
RECURSIVE NatText(_)
NatText(n) == IF n < 10 THEN <<DigitJ[n + 1]>> ELSE NatText(n \div 10) \o <<DigitJ[(n % 10) + 1]>>

\* fmt's %d and %v of an integer
IntText(n) == IF n < 0 THEN <<"-">> \o NatText(-n) ELSE NatText(n)

\* strings.ReplaceAll(s, old, new) for a one-character old
RECURSIVE ReplaceAll(_, _, _)
ReplaceAll(s, old, new) ==
  IF s = <<>> THEN <<>>
  ELSE (IF Head(s) = old THEN new ELSE <<Head(s)>>) \o ReplaceAll(Tail(s), old, new)

\* pq.QuoteIdentifier: embedded double quotes doubled, the whole in double quotes
QuoteIdentifier(name) == <<"\"">> \o ReplaceAll(name, "\"", <<"\"", "\"">>) \o <<"\"">>

\* the loop that joins the column list and the placeholder list with ", "
RECURSIVE JoinComma(_, _)
JoinComma(items, i) ==
  IF i > Len(items) THEN <<>>
  ELSE (IF i > 1 THEN <<",", " ">> ELSE <<>>) \o items[i] \o JoinComma(items, i + 1)

KwInsertInto == <<"I","N","S","E","R","T"," ","I","N","T","O"," ">>

KwValues == <<")"," ","V","A","L","U","E","S"," ","(">>

KwReturningId == <<" ","R","E","T","U","R","N","I","N","G"," ","i","d">>

\* an INSERT that writes the values into the statement text
InsertQuery_Interpolated(table, columns, placeholders, values, returning) ==
  KwInsertInto \o QuoteIdentifier(table) \o <<" ", "(">> \o JoinComma(columns, 1)
    \o KwValues \o JoinComma([i \in 1..Len(values) |-> <<"'">> \o values[i] \o <<"'">>], 1)
    \o <<")">> \o (IF returning THEN KwReturningId ELSE <<>>)

\* the two Sprintf calls of InsertRow: the INSERT over the joined lists
InsertQuery(table, columns, placeholders, values, returning) ==
  KwInsertInto \o QuoteIdentifier(table) \o <<" ", "(">> \o JoinComma(columns, 1)
    \o KwValues \o JoinComma(placeholders, 1)
    \o <<")">> \o (IF returning THEN KwReturningId ELSE <<>>)

\* what InsertRow builds for a request whose map is iterated in colOrder:
\* the three slices, the two statement texts and the bound parameters
InsertBuild(req, colOrder) ==
  LET n == Len(colOrder)
      columns == [i \in 1..n |-> QuoteIdentifier(colOrder[i])]
      placeholders == [i \in 1..n |-> <<"$">> \o IntText(i)]
      values == [i \in 1..n |-> req.values[colOrder[i]]]
  IN [columns |-> columns, placeholders |-> placeholders, values |-> values,
      queryWithReturning |-> InsertQuery(req.table, columns, placeholders, values, TRUE),
      queryWithoutReturning |-> InsertQuery(req.table, columns, placeholders, values, FALSE)]

\* the orders in which Go may iterate a map with these keys
Orders(keys) ==
  {o \in [1..Cardinality(keys) -> keys] : \A i, j \in DOMAIN o : o[i] = o[j] => i = j}

MaxInsertColumns == 2

ValPlain == <<"v">>

ValHostile == <<"x","'",")",";"," ","D","R","O","P"," ","T","A","B","L","E"," ","t",";"," ","-","-">>

IdQuote == <<"a","\"","b">>

InsertColumnNames == {IdName, IdId, IdHyphen, IdQuote}

InsertInputs ==
  {[kind |-> "insert", req |-> [table |-> t, values |-> v]] :
     t \in {IdOrders, IdHyphen, IdBad},
     v \in UNION {[cs -> {ValPlain, ValHostile}] :
                    cs \in {c \in SUBSET InsertColumnNames : Cardinality(c) <= MaxInsertColumns}}}

\* the validation of InsertRow and, for a valid request, the statements it
\* builds under one iteration order of the values map
BuildInsert ==
  /\ last.op = "none"
  /\ last.input # <<>>
  /\ last.input.kind = "insert"
  /\ LET req == last.input.req
         cols == DOMAIN req.values
         err == IF validateIdentifier(req.table) # "" THEN "invalid table name"
                ELSE IF cols = {} THEN "values cannot be empty"
                ELSE IF \E c \in cols : validateIdentifier(c) # "" THEN "invalid column name"
                ELSE ""
     IN \E colOrder \in Asked(err = "", Orders(cols), <<>>) :
          last' = Verdict("InsertRow", err,
                          IF err = "" THEN <<InsertBuild(req, colOrder)>> ELSE <<>>)
  /\ UNCHANGED <<projects, instances, creds, registry, redis, history>>

\* the items from index i on, each led by a space (%v of a slice)
RECURSIVE JoinLead(_, _)
JoinLead(items, i) ==
  IF i > Len(items) THEN <<>> ELSE <<" ">> \o items[i] \o JoinLead(items, i + 1)

KwAlterTable == <<"A","L","T","E","R"," ","T","A","B","L","E"," ">>

KwAddColumn == <<" ","A","D","D"," ","C","O","L","U","M","N"," ">>

KwDefault == <<" ","D","E","F","A","U","L","T"," ">>

\* the cases of AddColumn's switch for a default that is not a string: bool,
\* number (value an integer) and list (value a sequence of integers, printed
\* by %v as a JSON array is)
PlainDefault(default) ==
  CASE default[1].kind = "bool" ->
         KwDefault \o (IF default[1].value THEN <<"T","R","U","E">>
                       ELSE <<"F","A","L","S","E">>)
    [] default[1].kind = "number" -> KwDefault \o IntText(default[1].value)
    [] OTHER ->
         KwDefault \o <<"[">>
           \o (IF default[1].value = <<>> THEN <<>>
               ELSE IntText(default[1].value[1])
                      \o JoinLead([i \in 1..(Len(default[1].value) - 1) |->
                                     IntText(default[1].value[i + 1])], 1))
           \o <<"]">>

\* a string default wrapped in quotes as it stands
DefaultClause_Unescaped(default) ==
  IF default = <<>> THEN <<>>
  ELSE IF default[1].kind = "string"
  THEN KwDefault \o <<"'">> \o default[1].value \o <<"'">>
  ELSE PlainDefault(default)

\* the switch of AddColumn on the dynamic type of req.Default; default is
\* <<>> for nil, else <<[kind, value]>>
DefaultClause(default) ==
  IF default = <<>> THEN <<>>
  ELSE IF default[1].kind = "string"
  THEN KwDefault \o <<"'">> \o ReplaceAll(default[1].value, "'", <<"'", "'">>) \o <<"'">>
  ELSE PlainDefault(default)

\* the ALTER TABLE statement of AddColumn
AddColumnQuery(req) ==
  KwAlterTable \o QuoteIdentifier(req.table_name) \o KwAddColumn \o QuoteIdentifier(req.name)
    \o <<" ">> \o req.type \o DefaultClause(req.default)

MaxDefaultChars == 3

DefaultAlphabet == {"a", "'", ";", "\\"}

DefaultInputs ==
  {<<>>}
    \cup {<<[kind |-> "string", value |-> d]>> :
            d \in UNION {[1..n -> DefaultAlphabet] : n \in 0..MaxDefaultChars}}
    \cup {<<[kind |-> "bool", value |-> b]>> : b \in BOOLEAN}
    \cup {<<[kind |-> "number", value |-> n]>> : n \in {0, 5, -12, 100}}
    \cup {<<[kind |-> "list", value |-> l]>> : l \in {<<>>, <<1, 20>>}}

ColumnInputs ==
  {[kind |-> "column", req |-> [table_name |-> t, name |-> IdName, type |-> ty, default |-> d]] :
     t \in {IdOrders, IdBad}, ty \in {TyText, <<>>}, d \in DefaultInputs}

\* the validation of AddColumn and, for a valid request, the statement it
\* builds
BuildAddColumn ==
  /\ last.op = "none"
  /\ last.input # <<>>
  /\ last.input.kind = "column"
  /\ LET req == last.input.req
         err == IF validateIdentifier(req.table_name) # "" THEN "invalid table name"
                ELSE IF validateIdentifier(req.name) # "" THEN "invalid column name"
                ELSE IF req.type = <<>> THEN "column type cannot be empty"
                ELSE ""
     IN last' = Verdict("AddColumn", err,
                        IF err = "" THEN <<[query |-> AddColumnQuery(req)]>> ELSE <<>>)
  /\ UNCHANGED <<projects, instances, creds, registry, redis, history>>

\* what may stand before the first keyword of a free-form text: nothing,
\* white space, a block comment, a line comment
TextLeads == {<<>>, <<" ","\n","\t">>, <<"/","*"," ","c"," ","*","/"," ">>, <<"-","-"," ","c","\n">>}

TxSelectStar == <<"s","e","l","e","c","t"," ","*"," ","f","r","o","m"," ","t">>

TxSelectMixed == <<"S","e","L","e","C","t"," ","1"," ">>

TxExplainSelect == <<"e","x","p","l","a","i","n"," ","s","e","l","e","c","t"," ","1">>

TxExplainAnalyze == <<"E","X","P","L","A","I","N"," ","A","N","A","L","Y","Z","E"," ","S","E","L","E","C","T"," ","1">>

TxWithSelect == <<"w","i","t","h"," ","x"," ","a","s"," ","(","s","e","l","e","c","t"," ","1",")"," ","s","e","l","e","c","t"," ","2">>

TxUpdate == <<"u","p","d","a","t","e"," ","t"," ","s","e","t"," ","a"," ","="," ","1">>

TxSelection == <<"s","e","l","e","c","t","i","o","n">>

TxParenSelect == <<"(","s","e","l","e","c","t"," ","1",")">>

TextBodies ==
  {TxSelectStar, TxSelectMixed, TxExplainSelect, TxExplainAnalyze, TxWithSelect, TxUpdate,
   TxSelection, TxParenSelect, TxDropDatabase}

\* a free-form text and the tenant's answer to it: rows returned or affected,
\* or an error
TextInputs ==
  {[kind |-> "text", lead |-> l, body |-> b, drv |-> d] :
     l \in TextLeads, b \in TextBodies, d \in DriverAnswers}

\* the validation and execution steps of ExecuteQuery on the drawn text:
\* ValidateSQLQuery, then executeSQLQuery on the text as given
ExecuteText ==
  /\ last.op = "none"
  /\ last.input # <<>>
  /\ last.input.kind = "text"
  /\ LET query == last.input.lead \o last.input.body
         err == ValidateSQLQuery(query)
     IN last' = Verdict("executeSQLQuery", err,
                        IF err = "" THEN <<executeSQLQuery(query, last.input.drv)>> ELSE <<>>)
  /\ UNCHANGED <<projects, instances, creds, registry, redis, history>>

InitStatements ==
  /\ projects = [p \in Projects |-> IF p = "p1" THEN "u1" ELSE NoUser]
  /\ instances = <<>>
  /\ creds = <<>>
  /\ registry = [c \in Containers |-> NoIP]
  /\ redis = [c \in Containers |-> NoIP]
  /\ history = <<>>
  /\ \E x \in InsertInputs \cup ColumnInputs \cup TextInputs :
       last = [Idle EXCEPT !.input = x]

NextStatements ==
  \/ BuildInsert
  \/ BuildAddColumn
  \/ ExecuteText

SpecStatements == InitStatements /\ [][NextStatements]_vars

(***************************************************************************)
(* Calls against a tenant whose answers are fixed beforehand.  For         *)
(* InsertRow: what the information_schema probe says, how an INSERT ...    *)
(* RETURNING id ends and how a plain INSERT ends (rows affected, or an     *)
(* error).  For CreateTable and DeleteTable: the step at which the         *)
(* transaction fails, if any; a commit the tenant reports as failed has    *)
(* not been applied.                                                       *)
(***************************************************************************)
TenantInputs ==
  {[kind |-> "tenant", req |-> r, probe |-> p, ret |-> x, plain |-> d] :
     r \in InsertRequests, p \in ProbeAnswers, x \in TenantReturningAnswers,
     d \in DriverAnswers}

\* a table operation and where the tenant lets its transaction fail, if
\* anywhere
TransactionInputs ==
  {[kind |-> "tenant_tx", op |-> "CreateTable", req |-> r, tx |-> t] :
     r \in CreateTableRequests, t \in TxAnswers}
    \cup {[kind |-> "tenant_tx", op |-> "DeleteTable", req |-> r, tx |-> t] :
            r \in DeleteTableRequests, t \in TxAnswers}

InitInsert ==
  /\ projects = [p \in Projects |-> IF p = "p1" THEN "u1" ELSE NoUser]
  /\ instances = <<[project |-> "p1", status |-> "running", container |-> "c1",
                    port |-> PostgresPort, created |-> 1]>>
  /\ creds = <<[instance |-> 1, username |-> "admin", cipher |-> EncryptString("s1"),
                created |-> 1]>>
  /\ registry = [c \in Containers |-> "10.0.0.1"]
  /\ redis = [c \in Containers |-> NoIP]
  /\ history = <<>>
  /\ \E x \in TenantInputs \cup TransactionInputs : last = [Idle EXCEPT !.input = x]

\* ProjectService.InsertRow by the owner against the tenant drawn
InsertRowOn ==
  /\ last.op = "none"
  /\ last.input # <<>>
  /\ last.input.kind = "tenant"
  /\ Structured("InsertRow", "u1", "p1", last.input,
                InsertRowOutcome("u1", "p1", last.input.req, TRUE, last.input.probe,
                                 last.input.ret, last.input.plain))

\* TableService.CreateTable by the owner against the tenant drawn
CreateTableOn ==
  /\ last.op = "none"
  /\ last.input # <<>>
  /\ last.input.kind = "tenant_tx"
  /\ last.input.op = "CreateTable"
  /\ Structured("CreateTable", "u1", "p1", last.input,
                CreateTableOutcome(last.input.req, "u1", "p1", TRUE, last.input.tx))

\* TableService.DeleteTable by the owner against the tenant drawn
DeleteTableOn ==
  /\ last.op = "none"
  /\ last.input # <<>>
  /\ last.input.kind = "tenant_tx"
  /\ last.input.op = "DeleteTable"
  /\ Structured("DeleteTable", "u1", "p1", last.input,
                DeleteTableOutcome(last.input.req, "u1", "p1", TRUE, last.input.tx))

NextInsert ==
  \/ InsertRowOn
  \/ CreateTableOn
  \/ DeleteTableOn

SpecInsert == InitInsert /\ [][NextInsert]_vars

(***************************************************************************)
(* Vocabulary of the properties: the call that has just returned, read     *)
(* against the backing state it ran on (which no step changes before       *)
(* Return).                                                                *)
(***************************************************************************)
Called == last.op # "none"

StructuredOps ==
  {"InsertRow", "DeleteRow", "AddColumn", "DeleteColumn", "CreateTable", "DeleteTable"}

Steps == Range(last.steps)

Sent == Range(last.sent)

\* the failure the caller is told of: the hard error, else the result's error field
Reported ==
  IF last.err # "" THEN last.err
  ELSE IF last.result # <<>> /\ "error" \in DOMAIN last.result[1] THEN last.result[1].error
  ELSE ""

HardError == last.err # "" /\ last.result = <<>>

SoftError == last.err = "" /\ last.result # <<>> /\ Reported # ""

\* the locator failure a message stands for
Kind(msg) ==
  CASE msg = "project not found or not accessible" -> "not_found"
    [] msg = "no running database instance for this project" -> "no_instance"
    [] msg = "no credentials configured for this database instance" -> "no_credential"
    [] msg \in {"database instance container ID not configured",
                "database instance port not configured"} -> "not_configured"
    [] msg \in {"failed to get container IP",
                "failed to get container IP from orchestrator"} -> "ip_failed"
    [] msg \in {"failed to decrypt database credentials",
                "cipher: message authentication failed"} -> "decrypt_failed"
    [] OTHER -> "other"

EarlyKinds == {"not_found", "no_instance", "no_credential"}

LocatorKinds == EarlyKinds \cup {"not_configured", "ip_failed", "decrypt_failed"}

\* the request got past request validation (for ExecuteQuery: the Safety
\* Validator, which runs between the credential and the container checks)
Validated ==
  IF last.op = "ExecuteQuery" THEN ValidateSQLQuery(last.input) = ""
  ELSE "project" \in Steps

\* what the backing state holds for a caller, read off the tables directly
Owned(u, p) == projects[p] = u

RunningOf(p) ==
  {i \in 1..Len(instances) : instances[i].project = p /\ instances[i].status = "running"}

NewestRunning(p) ==
  IF RunningOf(p) = {} THEN 0
  ELSE CHOOSE i \in RunningOf(p) :
         \A j \in RunningOf(p) : instances[j].created <= instances[i].created

CredsOf(i) == {k \in 1..Len(creds) : creds[k].instance = i}

NewestCred(i) ==
  IF CredsOf(i) = {} THEN 0
  ELSE CHOOSE k \in CredsOf(i) : \A j \in CredsOf(i) : creds[j].created <= creds[k].created

Unresolvable(c) == c \notin Containers \/ (registry[c] = NoIP /\ redis[c] = NoIP)

\* the first failing check in the order of the locator's contract:
\* ownership, running instance, credential, container id and port, IP, secret
ContractOutcome(u, p) ==
  LET i == NewestRunning(p)
      k == NewestCred(i)
  IN IF ~Owned(u, p) THEN "not_found"
     ELSE IF i = 0 THEN "no_instance"
     ELSE IF k = 0 THEN "no_credential"
     ELSE IF instances[i].container = NoContainer \/ instances[i].port = NoPort
     THEN "not_configured"
     ELSE IF Unresolvable(instances[i].container) THEN "ip_failed"
     ELSE IF creds[k].cipher[1] # "enc" THEN "decrypt_failed"
     ELSE "none"

\* the first failing check in the order ExecuteQuery makes them:
\* ownership, running instance, credential, container id, IP, port, secret
FreeFormOutcome(u, p) ==
  LET i == NewestRunning(p)
      k == NewestCred(i)
  IN IF ~Owned(u, p) THEN "not_found"
     ELSE IF i = 0 THEN "no_instance"
     ELSE IF k = 0 THEN "no_credential"
     ELSE IF instances[i].container = NoContainer THEN "not_configured"
     ELSE IF Unresolvable(instances[i].container) THEN "ip_failed"
     ELSE IF instances[i].port = NoPort THEN "not_configured"
     ELSE IF creds[k].cipher[1] # "enc" THEN "decrypt_failed"
     ELSE "none"

IsLocatorStep(x) ==
  x \in {"project", "instance", "credential", "registry", "redis", "decrypt"}

\* the locator's lookups of the call, in the order they were made
LocatorTrace == SelectSeq(last.steps, IsLocatorStep)

IsPrefix(a, b) == Len(a) <= Len(b) /\ a = SubSeq(b, 1, Len(a))

\* the connection tuple the backing state determines for a routed caller
LocatorTuple(p) ==
  LET i == NewestRunning(p)
      k == NewestCred(i)
      c == instances[i].container
  IN [host |-> IF registry[c] # NoIP THEN registry[c] ELSE redis[c],
      port |-> instances[i].port, user |-> creds[k].username,
      password |-> creds[k].cipher[2], dbname |-> "postgres"]

(***************************************************************************)
(* C1.                                                                     *)
(***************************************************************************)
\* C1 as stated: in every Gateway operation, a call that fails because of
\* ownership, no running instance, no credential, a missing container id or
\* port, an unresolvable IP or an undecryptable secret returns a hard error:
\* a non-nil error and no result.
C1_LocatorFailuresAreHardErrors ==
  (Called /\ (Kind(Reported) \in LocatorKinds
                \/ (Validated /\ ContractOutcome(last.user, last.project) # "none")))
    => Kind(Reported) \in LocatorKinds /\ HardError

\* C1 amended: the six structured operations return a hard error and no
\* result for each of the six causes; ExecuteQuery does so only for ownership,
\* no running instance and no credential, and for a missing container id or
\* port, an unresolvable IP and an undecryptable secret returns a result with
\* a nil error whose error field carries the failure.
C1_HardErrorsExceptFreeFormLateChecks ==
  (Called /\ (Kind(Reported) \in LocatorKinds
                \/ (Validated /\ ContractOutcome(last.user, last.project) # "none")))
    => /\ Kind(Reported) \in LocatorKinds
       /\ IF last.op \in StructuredOps \/ Kind(Reported) \in EarlyKinds
          THEN HardError
          ELSE last.op = "ExecuteQuery" /\ SoftError

C1_Witness ==
  /\ last.op = "ExecuteQuery"
  /\ Kind(Reported) = "decrypt_failed"
  /\ SoftError

(***************************************************************************)
(* C2.                                                                     *)
(***************************************************************************)
\* C2 as stated: in every Gateway operation the failure reported is that of
\* the first failing check in the order ownership, running instance,
\* credential, container id and port, IP resolution, decryption; an instance
\* that is not configured is reported as such without any IP lookup.
C2_ContractOrderEverywhere ==
  (Called /\ Validated) =>
    LET expected == ContractOutcome(last.user, last.project)
    IN /\ expected # "none" => Kind(Reported) = expected
       /\ expected = "none" => Kind(Reported) \notin LocatorKinds
       /\ expected = "not_configured" => "registry" \notin Steps

\* C2 amended: the six structured operations check in the stated order and
\* make no IP lookup for an instance without container id or port;
\* ExecuteQuery checks ownership, running instance, credential, container id,
\* IP resolution, port, decryption, so an instance with no port and an
\* unresolvable IP is reported as IP resolution failed, after both lookups.
\* In either order each lookup is made only after the checks before it passed.
C2_OrderPerOperation ==
  (Called /\ Validated) =>
    LET expected == IF last.op = "ExecuteQuery"
                    THEN FreeFormOutcome(last.user, last.project)
                    ELSE ContractOutcome(last.user, last.project)
    IN /\ expected # "none" => Kind(Reported) = expected
       /\ expected = "none" => Kind(Reported) \notin LocatorKinds
       /\ IsPrefix(LocatorTrace,
                   <<"project", "instance", "credential", "registry">>
                     \o (IF "redis" \in Steps THEN <<"redis">> ELSE <<>>)
                     \o <<"decrypt">>)
       /\ "instance" \in Steps <=> expected # "not_found"
       /\ "credential" \in Steps <=> expected \notin {"not_found", "no_instance"}
       /\ "decrypt" \in Steps <=> expected \in {"decrypt_failed", "none"}
       /\ "registry" \in Steps <=>
            \/ expected \in {"ip_failed", "decrypt_failed", "none"}
            \/ /\ last.op = "ExecuteQuery"
               /\ expected = "not_configured"
               /\ instances[last.inst].container # NoContainer

C2_Witness ==
  /\ last.op \in StructuredOps
  /\ last.inst # 0
  /\ instances[last.inst].port = NoPort
  /\ instances[last.inst].container \in Containers
  /\ Unresolvable(instances[last.inst].container)
  /\ last.err = "database instance port not configured"
  /\ "registry" \notin Steps

(***************************************************************************)
(* C3.                                                                     *)
(***************************************************************************)
\* what a refused caller must not have caused
NothingTouched ==
  /\ Steps \subseteq {"validate", "project"}
  /\ last.inst = 0 /\ last.cred = 0 /\ last.dsn = <<>>
  /\ last.opened = 0 /\ last.sent = <<>> /\ last.audit = <<>>

\* every statement sent went to an instance of a project the caller owns
OwnerOnly == \A st \in Sent : Owned(last.user, instances[st.instance].project)

\* C3 as stated: a call for a project the caller does not own (or that does
\* not exist) returns the not-found error and makes no instance or credential
\* lookup, no IP resolution, opens no connection, sends no statement and
\* writes no history record; every statement executed on an instance was
\* requested by the owner of its project.
C3_NotOwnedIsNotFound ==
  Called =>
    /\ ~Owned(last.user, last.project) =>
         Kind(last.err) = "not_found" /\ last.result = <<>> /\ NothingTouched
    /\ OwnerOnly

\* C3 amended: such a call returns a hard error and touches nothing; the
\* error is not-found except that the six structured operations validate the
\* request first, so a malformed request is refused with its validation error
\* before the ownership lookup is made.
C3_NotOwnedTouchesNothing ==
  Called =>
    /\ ~Owned(last.user, last.project) =>
         /\ HardError
         /\ NothingTouched
         /\ IF "project" \in Steps THEN Kind(last.err) = "not_found"
            ELSE last.op \in StructuredOps /\ last.steps = <<"validate">>
    /\ OwnerOnly

C3_Witness ==
  /\ Called
  /\ last.user = "u2" /\ last.project = "p1"
  /\ ContractOutcome("u1", "p1") = "none"
  /\ Kind(last.err) = "not_found"
  /\ NothingTouched

(***************************************************************************)
(* C4.                                                                     *)
(***************************************************************************)
\* C4: in every operation that resolves the container's IP, an entry of the
\* in-memory registry is used and Redis is not consulted, whatever Redis
\* holds; on a registry miss the Redis mapping is used; resolution fails
\* exactly when both miss.
C4_TwoTierResolution ==
  (Called /\ "registry" \in Steps) =>
    LET c == instances[last.inst].container
    IN /\ registry[c] # NoIP =>
            /\ "redis" \notin Steps
            /\ last.dsn # <<>> => last.dsn[1].host = registry[c]
       /\ registry[c] = NoIP =>
            /\ "redis" \in Steps
            /\ (redis[c] # NoIP /\ last.dsn # <<>>) => last.dsn[1].host = redis[c]
       /\ Kind(Reported) = "ip_failed" <=> Unresolvable(c)

C4_Witness ==
  /\ Called
  /\ last.dsn # <<>>
  /\ \E c \in Containers :
       /\ registry[c] # NoIP /\ redis[c] # NoIP /\ redis[c] # registry[c]
       /\ last.dsn[1].host = registry[c]
  /\ "redis" \notin Steps
  /\ last.sent # <<>>

(***************************************************************************)
(* C5.                                                                     *)
(***************************************************************************)
\* C5: every operation that gets past ownership routes to the running
\* instance of the project with the greatest creation time, never to an
\* instance in another status however new, and fails with
\* no-running-instance when none is running.
C5_NewestRunningInstance ==
  (Called /\ "instance" \in Steps) =>
    LET running == RunningOf(last.project)
    IN /\ running = {} =>
            /\ last.err = "no running database instance for this project"
            /\ last.result = <<>> /\ last.inst = 0 /\ last.sent = <<>>
       /\ running # {} =>
            /\ last.inst \in running
            /\ \A j \in running : instances[j].created <= instances[last.inst].created
            /\ \A st \in Sent : st.instance = last.inst

C5_Witness ==
  /\ Called
  /\ Len(instances) = 2
  /\ instances[1].status = "running"
  /\ instances[2].status \in {"creating", "failed", "paused", "deleted"}
  /\ last.inst = 1
  /\ last.sent # <<>>

(***************************************************************************)
(* C6.                                                                     *)
(***************************************************************************)
\* C6: every operation that gets to the credential lookup uses the credential
\* row of the routed instance with the greatest creation time, and connects
\* with that row's username and the plaintext of that row's secret; since
\* this holds of every call in every state, a call after a rotation uses the
\* new row and none uses a superseded one.
C6_NewestCredential ==
  (Called /\ "credential" \in Steps) =>
    LET rows == CredsOf(last.inst)
    IN /\ rows = {} => last.cred = 0 /\ Kind(last.err) = "no_credential"
       /\ rows # {} =>
            /\ last.cred \in rows
            /\ \A j \in rows : creds[j].created <= creds[last.cred].created
            /\ last.dsn # <<>> =>
                 /\ last.dsn[1].user = creds[last.cred].username
                 /\ creds[last.cred].cipher = <<"enc", last.dsn[1].password>>

C6_Witness ==
  /\ Called
  /\ Cardinality(CredsOf(last.inst)) = 2
  /\ last.cred = 2
  /\ last.dsn # <<>>
  /\ last.dsn[1].password = "s2"
  /\ last.sent # <<>>

(***************************************************************************)
(* C7.                                                                     *)
(***************************************************************************)
\* C7: what the locator returns to a call is determined by the project,
\* instance, credential and IP state at the time of the call: a connection
\* tuple is built exactly when that state passes every check, and it is the
\* tuple that state determines (so two calls on unchanged state get the same
\* tuple, and a call after the registry changed gets the registry's new IP).
C7_FunctionOfBackingState ==
  (Called /\ Validated) =>
    /\ last.dsn # <<>> <=> ContractOutcome(last.user, last.project) = "none"
    /\ last.dsn # <<>> => last.dsn = <<LocatorTuple(last.project)>>

\* a second call, made after the registry learnt an IP that differs from the
\* persisted one, and after an earlier call left its history record
C7_Witness ==
  /\ Called
  /\ last.audit = <<>>
  /\ history # <<>>
  /\ history[1].user_id = last.user
  /\ last.dsn # <<>>
  /\ last.dsn[1].host = "10.0.0.1"
  /\ \E c \in Containers : redis[c] = "10.0.0.2"

(***************************************************************************)
(* C8.                                                                     *)
(***************************************************************************)
\* C8 as stated: a call of any of the seven operations that reached a routed
\* tenant (opened a connection to run its statement) hands exactly one record
\* to the query history, and no call hands over more than one.
C8_OneRecordPerAttempt ==
  Called =>
    /\ Len(last.audit) <= 1
    /\ last.opened = 1 => Len(last.audit) = 1

(***************************************************************************)
(* C9.                                                                     *)
(***************************************************************************)
\* C9: an ExecuteQuery call on a properly routed project whose text the
\* Safety Validator rejects, or whose statement the driver fails, returns a
\* nil error and a result with a non-empty error field, and hands exactly one
\* record, with success = false, to the query history, where it is the row
\* appended by the call (unless the platform database refuses the insert,
\* which the call ignores).
C9_SoftFailureIsRecorded ==
  (/\ last.op = "ExecuteQuery"
   /\ FreeFormOutcome(last.user, last.project) = "none"
   /\ \/ ValidateSQLQuery(last.input) # ""
      \/ \E st \in Sent : ~st.ok)
    => /\ last.err = ""
       /\ last.result # <<>> /\ last.result[1].error # ""
       /\ Len(last.audit) = 1
       /\ last.audit[1].success = FALSE
       /\ last.audit[1].query_text = last.input
       /\ last.audited => history # <<>> /\ history[Len(history)] = last.audit[1]

C9_Witness ==
  /\ last.op = "ExecuteQuery"
  /\ last.input = QDrop
  /\ FreeFormOutcome(last.user, last.project) = "none"
  /\ last.err = ""
  /\ last.result[1].error # ""
  /\ last.sent = <<>>
  /\ history = <<QueryHistory(last.inst, last.user, QDrop, FALSE)>>

(***************************************************************************)
(* C10.                                                                    *)
(***************************************************************************)
EarlyFailure == FreeFormOutcome(last.user, last.project) \in EarlyKinds

\* C10: an ExecuteQuery call that fails at the ownership, running-instance or
\* credential check returns a hard error, attempts no tenant connection and
\* leaves the query history as it was, whatever the query text.
C10_EarlyFailureLeavesNoTrace ==
  [][(last'.op = "ExecuteQuery" /\ EarlyFailure') =>
       /\ HardError'
       /\ Kind(last.err)' = FreeFormOutcome(last.user, last.project)'
       /\ "open" \notin Steps' /\ last'.opened = 0 /\ last'.dsn = <<>>
       /\ last'.sent = <<>>
       /\ last'.audit = <<>>
       /\ history' = history]_vars

C10_Witness ==
  /\ last.op = "ExecuteQuery"
  /\ last.input = QDrop
  /\ FreeFormOutcome(last.user, last.project) = "no_instance"
  /\ HardError
  /\ history = <<>>

(***************************************************************************)
(* C11.                                                                    *)
(***************************************************************************)
\* the messages of the request validation of the structured operations
ValidationErrors ==
  {"invalid table name", "invalid column name", "invalid schema name",
   "values cannot be empty", "column type cannot be empty", "validation failed"}

\* some schema, table or column name of the request that has just been
\* answered fails the identifier validation of its operation
NameRefused ==
  LET in == last.input
  IN CASE last.op = "InsertRow" ->
            \/ validateIdentifier(in.table) # ""
            \/ \E c \in DOMAIN in.values : validateIdentifier(c) # ""
       [] last.op = "DeleteRow" -> validateIdentifier(in.req.table_name) # ""
       [] last.op = "AddColumn" ->
            validateIdentifier(in.table_name) # "" \/ validateIdentifier(in.name) # ""
       [] last.op = "DeleteColumn" ->
            \/ validateIdentifier(in.req.table_name) # ""
            \/ validateIdentifier(in.columnName) # ""
       [] last.op = "CreateTable" ->
            \/ ~isValidIdentifier(IF in.schema = <<>> THEN IdPublic ELSE in.schema)
            \/ ~isValidIdentifier(in.table)
            \/ \E i \in 1..Len(in.columns) : ~isValidIdentifier(in.columns[i].name)
            \/ \E f \in 1..Len(in.foreign_keys) :
                 \/ ~isValidIdentifier(in.foreign_keys[f].schema)
                 \/ ~isValidIdentifier(in.foreign_keys[f].table)
                 \/ \E i \in 1..Len(in.foreign_keys[f].references) :
                      \/ ~isValidIdentifier(in.foreign_keys[f].references[i].local_column)
                      \/ ~isValidIdentifier(in.foreign_keys[f].references[i].foreign_column)
       [] last.op = "DeleteTable" ->
            ~isValidIdentifier(in.schema) \/ ~isValidIdentifier(in.table)
       [] OTHER -> FALSE

\* C11: in each of the six structured operations, a request in which a schema,
\* table or column name fails identifier validation is answered with a hard
\* validation error before any locator lookup is made: no tenant connection
\* is opened and no statement is sent to the tenant.
C11_BadNameRefusedBeforeLookup ==
  (last.op \in StructuredOps /\ NameRefused)
    => /\ HardError
       /\ last.err \in ValidationErrors
       /\ LocatorTrace = <<>>
       /\ "open" \notin Steps
       /\ last.opened = 0
       /\ last.dsn = <<>>
       /\ last.sent = <<>>

\* the owner of a routable project inserts into orders a column named 1bad
C11_Witness ==
  /\ last.op = "InsertRow"
  /\ last.user = "u1" /\ last.project = "p1"
  /\ ContractOutcome("u1", "p1") = "none"
  /\ last.input.table = IdOrders
  /\ IdBad \in DOMAIN last.input.values
  /\ last.err = "invalid column name"
  /\ last.sent = <<>>

(***************************************************************************)
(* C12.                                                                    *)
(***************************************************************************)
\* what the caller of the last ExecuteQuery was given
Given(o) == [err |-> o.err, result |-> o.result, sent |-> o.sent]

\* the last call gave its caller what a call whose history write succeeds gives
AsIfWritten ==
  \E openOk \in BOOLEAN, drv \in DriverAnswers :
    Given(last) = Given(ExecuteQueryOutcome(last.user, last.input, last.project, openOk, drv))

\* the history write of the last call was attempted once
WrittenOnce ==
  /\ Len(last.audit) = 1
  /\ Len(SelectSeq(last.steps, LAMBDA x : x = "audit")) = 1

AuditFailed == last.op = "ExecuteQuery" /\ last.audit # <<>> /\ ~last.audited

\* C12 as stated: when writing the history row fails, ExecuteQuery returns
\* the same result and nil error as if the write had succeeded, the write is
\* attempted exactly once, and the failure is logged.
C12_AuditFailureLoggedAndSwallowed ==
  AuditFailed
    => /\ last.err = "" /\ last.result # <<>>
       /\ AsIfWritten
       /\ WrittenOnce
       /\ last.log # <<>>

\* C12 amended: when writing the history row fails, ExecuteQuery returns the
\* same result and nil error as if the write had succeeded and the write is
\* attempted exactly once; the failure is discarded and nothing is logged.
C12_AuditFailureSwallowedSilently ==
  AuditFailed
    => /\ last.err = "" /\ last.result # <<>>
       /\ AsIfWritten
       /\ WrittenOnce
       /\ last.log = <<>>

\* a statement ran on the tenant and its history row could not be written
C12_Witness ==
  /\ AuditFailed
  /\ last.opened = 1
  /\ last.sent # <<>>
  /\ last.result[1].error = ""
  /\ history = <<>>

(***************************************************************************)
(* C13.                                                                    *)
(***************************************************************************)
\* C13: the query history is append-only over every sequence of ExecuteQuery,
\* structured operations, project creation and project deletion: each step
\* leaves the records already written in place and unchanged, adding new
\* ones only at the end.
C13_HistoryAppendOnly ==
  [][IsPrefix(history, history')]_vars

(***************************************************************************)
(* C14.                                                                    *)
(***************************************************************************)
GatewayOps == StructuredOps \cup {"ExecuteQuery"}

\* the request is well-formed and the backing state routes the caller
Routed == Validated /\ ContractOutcome(last.user, last.project) = "none"

\* sql.Open itself failed: there is no connection to use or to close
OpenFailed == Reported \in {"failed to open database connection", "sql: open failed"}

StepsAt(x) == {i \in 1..Len(last.steps) : last.steps[i] = x}

\* C14: every Gateway call that passes the locator opens exactly one new
\* tenant connection and closes it before it returns, on every return path
\* (success, validation failure after open, driver error, transaction begin
\* or commit failure); a call uses no connection but its own: statements are
\* sent only between its own open and close, and nothing stays open.
C14_OneConnectionPerCallClosed ==
  last.op \in GatewayOps
    => /\ last.opened <= 1
       /\ last.closed = last.opened
       /\ (Routed /\ ~OpenFailed) => last.opened = 1
       /\ ~Routed => last.opened = 0
       /\ last.sent # <<>> => last.opened = 1
       /\ last.opened = 1
            => /\ Cardinality(StepsAt("open")) = 1
               /\ StepsAt("close") = {Len(last.steps)}
               /\ \A i \in 1..Len(last.steps) :
                    last.steps[i] \in {"exec", "probe", "insert", "insert_returning",
                                       "ordinal", "begin", "commit", "rollback", "parse"}
                      => \A o \in StepsAt("open") : o < i

\* a row id that does not parse is refused after the connection was opened
C14_Witness ==
  /\ last.op = "DeleteRow"
  /\ Routed
  /\ last.err = "invalid row id"
  /\ last.opened = 1
  /\ last.closed = 1
  /\ last.sent = <<>>

(***************************************************************************)
(* C15.                                                                    *)
(***************************************************************************)
\* the pieces of the text ValidateSQLQuery was applied to
Pieces == last.input.pieces

\* the text without its comments: a block comment leaves nothing, a line
\* comment leaves the end of its line
RECURSIVE CodeOnly(_)
CodeOnly(pieces) ==
  IF pieces = <<>> THEN <<>>
  ELSE (CASE Head(pieces).kind = "code" -> Head(pieces).text
          [] Head(pieces).kind = "line" -> <<"\n">>
          [] OTHER -> <<>>) \o CodeOnly(Tail(pieces))

\* keyword k occurs, in any letter case, in a piece of one of the kinds
Occurs(k, kinds) ==
  \E i \in 1..Len(Pieces) :
    Pieces[i].kind \in kinds /\ Contains(ToUpper(Pieces[i].text), k)

BannedKeywords ==
  {KwDropDatabase, KwDropSchema, KwTruncate, KwAlterDatabase, KwCreateDatabase,
   KwCreateSchema}

Comments == {"block", "line"}

\* C15: for every SQL text, in any letter case: if DROP DATABASE, DROP SCHEMA,
\* TRUNCATE, ALTER DATABASE, CREATE DATABASE or CREATE SCHEMA occurs outside
\* of comments, ValidateSQLQuery rejects the text; if such a keyword occurs
\* only inside a block comment or after -- on a line and the text is
\* otherwise safe, the text is accepted; a text that is empty after trimming
\* and comment stripping is rejected.
C15_BannedKeywordsOutsideComments ==
  last.op = "ValidateSQLQuery"
    => /\ (\E k \in BannedKeywords : Occurs(k, {"code"})) => last.err # ""
       /\ ( /\ \E k \in BannedKeywords : Occurs(k, Comments)
            /\ \A k \in BannedKeywords : ~Occurs(k, {"code"})
            /\ ValidateSQLQuery(CodeOnly(Pieces)) = "" )
            => last.err = ""
       /\ TrimSpace(CodeOnly(Pieces)) = <<>> => last.err = "query cannot be empty"

\* select 1 behind a block comment that holds drop database x is accepted
C15_Witness ==
  /\ last.op = "ValidateSQLQuery"
  /\ Pieces = <<[kind |-> "block", text |-> TxNote], [kind |-> "code", text |-> TxSelect]>>
  /\ last.err = ""

(***************************************************************************)
(* C16.                                                                    *)
(***************************************************************************)
WhereError == "DELETE statements must include a WHERE clause for safety"

\* the text has a WHERE clause: one of its code pieces is one
HasWhereClause ==
  \E i \in 1..Len(Pieces) : Pieces[i] = [kind |-> "code", text |-> TxWhere]

\* the keywords the validator looks for before DELETE FROM
CheckedBeforeDelete == {KwDropDatabase, KwDropSchema, KwTruncate}

\* C16: for every SQL text that contains DELETE FROM, in any letter case,
\* outside of comments: when the text has no WHERE clause ValidateSQLQuery
\* rejects it, with the WHERE-clause error unless an earlier keyword rule
\* already objects; when it has a WHERE clause the DELETE rule does not
\* reject it.
C16_DeleteNeedsWhereClause ==
  (last.op = "ValidateSQLQuery" /\ Occurs(KwDeleteFrom, {"code"}))
    => /\ ~HasWhereClause
            => /\ last.err # ""
               /\ (\A k \in CheckedBeforeDelete : ~Occurs(k, {"code"}))
                     => last.err = WhereError
       /\ HasWhereClause => last.err # WhereError

(***************************************************************************)
(* C17.                                                                    *)
(***************************************************************************)
\* the segments between the semicolons of the text without its comments
Segments == SplitSemi(TrimSpace(CodeOnly(Pieces)))

\* how many of them hold a statement
Statements == Cardinality({i \in 1..Len(Segments) : TrimSpace(Segments[i]) # <<>>})

\* C17: for every SQL text: ValidateSQLQuery rejects the text if, after
\* comment stripping and splitting on the semicolon, more than one non-empty
\* segment remains, so that two statements separated by a semicolon are
\* rejected; a single statement with one trailing semicolon, otherwise safe,
\* is accepted.
C17_MultipleStatementsRejected ==
  last.op = "ValidateSQLQuery"
    => /\ Statements > 1 => last.err # ""
       /\ ( /\ Statements = 1
            /\ Len(Segments) = 2
            /\ TrimSpace(Segments[2]) = <<>>
            /\ ValidateSQLQuery(Segments[1]) = "" )
            => last.err = ""

(***************************************************************************)
(* C18.                                                                    *)
(***************************************************************************)
\* the name both identifier validators were applied to, and their verdicts
Name == last.input.name

LooseAccepts == last.err = ""

StrictAccepts == last.result[1].valid

Quoting == {";", "'", "\"", ")", "("}

StartsWithDigit == Name # <<>> /\ Name[1] \in Digits

\* the name contains ; -- ' " ) or ( or starts with a digit
Hostile ==
  \/ \E i \in 1..Len(Name) : Name[i] \in Quoting
  \/ Contains(Name, <<"-", "-">>)
  \/ StartsWithDigit

Letters == LowerSet \cup UpperSet

\* ^[A-Za-z_][A-Za-z0-9_$]*$ and at most 63 bytes
Canonical ==
  /\ Name # <<>>
  /\ Len(Name) <= 63
  /\ Name[1] \in Letters \cup {"_"}
  /\ \A i \in 2..Len(Name) : Name[i] \in Letters \cup Digits \cup {"_", "$"}

\* ^[A-Za-z_][A-Za-z0-9_-]*$, any length
Hyphenated ==
  /\ Name # <<>>
  /\ Name[1] \in Letters \cup {"_"}
  /\ \A i \in 2..Len(Name) : Name[i] \in Letters \cup Digits \cup {"_", "-"}

\* C18 as stated: both identifier validators reject every identifier that
\* contains ; -- ' " ) or ( or that starts with a digit, and both accept every
\* identifier of at most 63 bytes matching ^[A-Za-z_][A-Za-z0-9_$]*$.
C18_BothValidatorsCanonical ==
  last.op = "validateIdentifier"
    => /\ Hostile => ~LooseAccepts /\ ~StrictAccepts
       /\ Canonical => LooseAccepts /\ StrictAccepts

\* C18 amended: isValidIdentifier rejects every identifier that contains
\* ; -- ' " ) or ( or starts with a digit and accepts every identifier of at
\* most 63 bytes matching ^[A-Za-z_][A-Za-z0-9_$]*$ (and no other);
\* validateIdentifier rejects every identifier that contains ; ' " ) or ( or
\* starts with a digit, and accepts exactly the identifiers matching
\* ^[A-Za-z_][A-Za-z0-9_-]*$ of any length: it accepts names holding -- and
\* names longer than 63 bytes and rejects names holding $.
C18_StrictCanonicalLooseHyphenated ==
  last.op = "validateIdentifier"
    => /\ Hostile => ~StrictAccepts
       /\ StrictAccepts <=> Canonical
       /\ ((\E i \in 1..Len(Name) : Name[i] \in Quoting) \/ StartsWithDigit)
            => ~LooseAccepts
       /\ LooseAccepts <=> Hyphenated

\* a name holding -- passes validateIdentifier and fails isValidIdentifier
C18_Witness ==
  /\ last.op = "validateIdentifier"
  /\ Name = <<"a", "-", "-">>
  /\ LooseAccepts
  /\ ~StrictAccepts

(***************************************************************************)
(* C19.                                                                    *)
(***************************************************************************)
\* the upper-cased type starts with an entry of the allow-list
AllowListed(type) == \E k \in 1..Len(validTypes) : HasPrefix(ToUpper(type), validTypes[k])

\* the column types the request that has just been answered asks for
TypesAsked ==
  CASE last.op = "AddColumn" -> {last.input.type}
    [] last.op = "CreateTable" ->
         {last.input.columns[i].type : i \in 1..Len(last.input.columns)}
    [] OTHER -> {}

\* the column types a statement sent to the tenant carries
TypesIn(stmt) ==
  CASE stmt.text[1] = "ALTER TABLE ADD COLUMN" -> {stmt.text[4]}
    [] stmt.text[1] = "CREATE TABLE" -> {stmt.text[4][i].type : i \in 1..Len(stmt.text[4])}
    [] OTHER -> {}

\* C19: in CreateTable (each column) and AddColumn, a request with a column
\* type whose upper-cased form does not start with an entry of the allow-list
\* is rejected before any statement is sent, so every column type in a
\* statement sent to a tenant begins with an allow-listed type name.
C19_OnlyAllowListedTypesSent ==
  last.op \in {"CreateTable", "AddColumn"}
    => /\ (\E t \in TypesAsked : ~AllowListed(t)) => HardError /\ last.sent = <<>>
       /\ \A i \in 1..Len(last.sent) : \A t \in TypesIn(last.sent[i]) : AllowListed(t)

(***************************************************************************)
(* C20.                                                                    *)
(***************************************************************************)
\* the request the builder was applied to and the statement it built
Req == last.input.req

Statement == last.result[1]

\* the lines of a text
RECURSIVE Lines(_)
Lines(s) ==
  IF \E i \in 1..Len(s) : s[i] = "\n"
  THEN LET i == CHOOSE i \in 1..Len(s) : s[i] = "\n" /\ \A j \in 1..(i - 1) : s[j] # "\n"
       IN <<SubSeq(s, 1, i - 1)>> \o Lines(SubSeq(s, i + 1, Len(s)))
  ELSE IF s = <<>> THEN <<>> ELSE <<s>>

\* a line without its indentation and its separating comma
Bare(line) ==
  LET l == TrimLeft(line)
  IN IF l # <<>> /\ l[Len(l)] = "," THEN SubSeq(l, 1, Len(l) - 1) ELSE l

\* a column clause opens with the indented, quoted column name
IsColumnLine(line) == HasPrefix(line, <<" ", " ", "\"">>)

\* a default is given: the request carries a non-empty default text
DefaultGiven(col) == col.default # <<>> /\ col.default[1] # <<>>

\* the parts the clause of a column is to have, in order
Parts(col) ==
  <<<<"\"">> \o col.name \o <<"\"">>, col.type>>
    \o (IF col.is_identity THEN <<<<"G","E","N","E","R","A","T","E","D"," ","A","L","W","A","Y","S"," ","A","S"," ","I","D","E","N","T","I","T","Y">>>> ELSE <<>>)
    \o (IF col.primary THEN <<<<"P","R","I","M","A","R","Y"," ","K","E","Y">>>> ELSE <<>>)
    \o (IF col.is_unique THEN <<<<"U","N","I","Q","U","E">>>> ELSE <<>>)
    \o (IF ~col.nullable THEN <<<<"N","O","T"," ","N","U","L","L">>>> ELSE <<>>)
    \o (IF DefaultGiven(col) THEN <<<<"D","E","F","A","U","L","T">>, col.default[1]>> ELSE <<>>)

\* the parts separated by one space
RECURSIVE Spaced(_)
Spaced(parts) ==
  IF Len(parts) = 1 THEN parts[1] ELSE parts[1] \o <<" ">> \o Spaced(Tail(parts))

ExampleId == <<"\"","i","d","\""," ","I","N","T"," ","G","E","N","E","R","A","T","E","D"," ","A","L","W","A","Y","S"," ","A","S"," ","I","D","E","N","T","I","T","Y"," ","P","R","I","M","A","R","Y"," ","K","E","Y"," ","N","O","T"," ","N","U","L","L">>

ExampleName == <<"\"","n","a","m","e","\""," ","V","A","R","C","H","A","R","(","5","0",")"," ","N","O","T"," ","N","U","L","L">>

\* C20: for every valid CreateTable request the built statement has one
\* clause per column, in declaration order, and each clause consists of the
\* quoted name, the type, GENERATED ALWAYS AS IDENTITY iff identity, PRIMARY
\* KEY iff primary, UNIQUE iff unique, NOT NULL iff not nullable and DEFAULT
\* with the literal iff a default is given, in this order; an identity,
\* primary, non-nullable INT column id yields
\* "id" INT GENERATED ALWAYS AS IDENTITY PRIMARY KEY NOT NULL.
C20_ColumnClausesInOrder ==
  (last.op = "parseCreateQuery" /\ last.err = "")
    => LET lines == Lines(Statement)
           n == Len(Req.columns)
       IN /\ Cardinality({i \in 1..Len(lines) : IsColumnLine(lines[i])}) = n
          /\ \A i \in 1..n :
               /\ IsColumnLine(lines[i + 1])
               /\ Bare(lines[i + 1]) = Spaced(Parts(Req.columns[i]))
          /\ ( /\ Req.columns[1].is_identity /\ Req.columns[1].primary
               /\ ~Req.columns[1].is_unique /\ ~Req.columns[1].nullable
               /\ ~DefaultGiven(Req.columns[1]) )
               => Bare(lines[2]) = ExampleId

\* the statement for the columns id and name of the example, with a foreign key
C20_Witness ==
  /\ last.op = "parseCreateQuery"
  /\ last.err = ""
  /\ Len(Req.columns) = 2
  /\ Req.foreign_keys # <<>>
  /\ Contains(Statement, ExampleId \o <<",", "\n", " ", " ">> \o ExampleName \o <<",", "\n">>)

(***************************************************************************)
(* C21.                                                                    *)
(***************************************************************************)
\* the referential actions PostgreSQL knows
Actions ==
  {<<"C","A","S","C","A","D","E">>, <<"R","E","S","T","R","I","C","T">>,
   <<"N","O"," ","A","C","T","I","O","N">>, <<"S","E","T"," ","N","U","L","L">>,
   <<"S","E","T"," ","D","E","F","A","U","L","T">>}

\* the ON UPDATE and ON DELETE actions a foreign-key block carries; an empty
\* action emits no clause
ActionsOf(fks) ==
  IF fks = <<>> THEN {}
  ELSE UNION {{fks[1].references[i].on_update, fks[1].references[i].on_delete} :
                i \in 1..Len(fks[1].references)} \ {<<>>}

\* the actions in a statement sent to the tenant
ActionsIn(stmt) == IF stmt.text[1] = "CREATE TABLE" THEN ActionsOf(stmt.text[5]) ELSE {}

\* C21: every ON UPDATE or ON DELETE action in a CREATE TABLE statement that
\* CreateTable sends to a tenant is one of CASCADE, RESTRICT, NO ACTION,
\* SET NULL, SET DEFAULT, and a request carrying any other action string in a
\* foreign-key reference is rejected and no statement is sent.
C21_OnlyKnownActionsSent ==
  last.op = "CreateTable"
    => /\ \A i \in 1..Len(last.sent) : ActionsIn(last.sent[i]) \subseteq Actions
       /\ ActionsOf(last.input.foreign_keys) \ Actions # {}
            => HardError /\ last.sent = <<>>

(***************************************************************************)
(* C22.                                                                    *)
(***************************************************************************)
\* the InsertRow request the statements were built for, and what was built
InsertReq == last.input.req

Built == last.result[1]

\* the items separated by a comma and a space, composed from the right
RECURSIVE Listed(_)
Listed(items) ==
  IF Len(items) = 0 THEN <<>>
  ELSE IF Len(items) = 1 THEN items[1]
  ELSE Listed(SubSeq(items, 1, Len(items) - 1)) \o <<",", " ">> \o items[Len(items)]

\* the statement over the columns in the order o, with placeholders only
Parameterized(o, returning) ==
  <<"I","N","S","E","R","T"," ","I","N","T","O"," ">> \o Quoted(InsertReq.table) \o <<" ", "(">>
    \o Listed([i \in 1..Len(o) |-> Quoted(o[i])])
    \o <<")">> \o <<" ","V","A","L","U","E","S"," ">> \o <<"(">>
    \o Listed([i \in 1..Len(o) |-> <<"$", DigitJ[i + 1]>>])
    \o <<")">> \o (IF returning THEN <<" ","R","E","T","U","R","N","I","N","G"," ","i","d">> ELSE <<>>)

\* the order in which the built statements list the request's columns
ListedOrders ==
  {o \in Orders(DOMAIN InsertReq.values) :
     /\ Built.queryWithReturning = Parameterized(o, TRUE)
     /\ Built.queryWithoutReturning = Parameterized(o, FALSE)}

\* the requests with the same table and column set as this one
SameShape ==
  {x \in InsertInputs : /\ x.req.table = InsertReq.table
                        /\ DOMAIN x.req.values = DOMAIN InsertReq.values}

\* C22: for an InsertRow request with n columns, each INSERT statement built
\* has the n quoted column names and the placeholders $1..$n, the i-th bound
\* parameter is the request's value for the i-th listed column, and the text
\* does not depend on the values: a request with the same table and column
\* set but other values gives, for the same column order, the same text.
C22_InsertIsParameterized ==
  last.op = "InsertRow" /\ last.result # <<>>
    => /\ ListedOrders # {}
       /\ \A o \in ListedOrders :
            /\ Len(Built.values) = Cardinality(DOMAIN InsertReq.values)
            /\ \A i \in 1..Len(o) : Built.values[i] = InsertReq.values[o[i]]
            /\ \A x \in SameShape :
                 /\ InsertBuild(x.req, o).queryWithReturning = Built.queryWithReturning
                 /\ InsertBuild(x.req, o).queryWithoutReturning = Built.queryWithoutReturning

\* two columns, one value that would close a literal: the text carries only
\* the placeholders and the values travel as parameters
C22_Witness ==
  /\ last.op = "InsertRow"
  /\ last.result # <<>>
  /\ Built.queryWithReturning = <<"I","N","S","E","R","T"," ","I","N","T","O"," ","\"","o","r","d","e","r","s","\""," ","(","\"","i","d","\"",","," ","\"","n","a","m","e","\"",")"," ","V","A","L","U","E","S"," ","(","$","1",","," ","$","2",")"," ","R","E","T","U","R","N","I","N","G"," ","i","d">>
  /\ Built.queryWithoutReturning = <<"I","N","S","E","R","T"," ","I","N","T","O"," ","\"","o","r","d","e","r","s","\""," ","(","\"","i","d","\"",","," ","\"","n","a","m","e","\"",")"," ","V","A","L","U","E","S"," ","(","$","1",","," ","$","2",")">>
  /\ Built.values = <<ValHostile, ValPlain>>
  /\ Cardinality(SameShape) = 4

(***************************************************************************)
(* C23.                                                                    *)
(***************************************************************************)
\* the tenant the call ran against and the statements it was sent, by kind
Tenant == last.input

Attempted == [i \in 1..Len(last.sent) |-> last.sent[i].text[1]]

TheProbe == "SELECT EXISTS information_schema.columns"

\* the call reached the id-column probe
Probed == last.op = "InsertRow" /\ Has(last.steps, "probe")

\* the call succeeded and reports this row id
RowID(id) == last.err = "" /\ last.result = <<[row_id |-> id]>>

\* what the probe and the RETURNING attempt decide: which statements are
\* attempted, and the outcome when no plain INSERT is attempted
ProbeProtocol ==
  /\ Tenant.probe = "has_id" /\ Tenant.ret = "ok"
       => Attempted = <<TheProbe, "INSERT RETURNING id">> /\ RowID(GeneratedID)
  /\ Tenant.probe = "has_id" /\ Tenant.ret = "undefined_column"
       => Attempted = <<TheProbe, "INSERT RETURNING id", "INSERT">>
  /\ Tenant.probe = "has_id" /\ Tenant.ret \notin {"ok", "undefined_column"}
       => Attempted = <<TheProbe, "INSERT RETURNING id">> /\ HardError
  /\ Tenant.probe \in {"no_id", "error"} => Attempted = <<TheProbe, "INSERT">>

\* the plain INSERT was attempted
PlainAttempted == Has(Attempted, "INSERT")

\* C23 as stated: after the id-column probe, InsertRow attempts INSERT ...
\* RETURNING id when the probe finds an id column and returns the generated
\* id on success; on an undefined-column error it falls back to a plain
\* INSERT and returns row id 0; on any other error it returns a hard error
\* without the plain INSERT; when the probe finds no id column or errors,
\* only the plain INSERT is attempted and row id 0 is returned.
C23_FallbackReturnsZero ==
  Probed => ProbeProtocol /\ (PlainAttempted => RowID(0))

\* C23 amended: the same protocol, and a plain INSERT that was attempted
\* returns row id 0 when it affected at least one row, and a hard error when
\* it failed or affected no row.
C23_FallbackReturnsZeroOrFails ==
  Probed
    => /\ ProbeProtocol
       /\ PlainAttempted /\ Tenant.plain >= 1 => RowID(0)
       /\ PlainAttempted /\ Tenant.plain \in {DrvError, 0} => HardError

\* the RETURNING attempt met an undefined column, the plain INSERT stored the
\* row and row id 0 is reported
C23_Witness ==
  /\ Probed
  /\ Tenant.probe = "has_id"
  /\ Tenant.ret = "undefined_column"
  /\ Tenant.plain = 1
  /\ Attempted = <<TheProbe, "INSERT RETURNING id", "INSERT">>
  /\ RowID(0)

(***************************************************************************)
(* C24.                                                                    *)
(***************************************************************************)
\* the AddColumn request the statement was built for, the statement, and
\* the statement up to the DEFAULT clause
ColumnReq == last.input.req

Query == last.result[1].query

Base ==
  <<"A","L","T","E","R"," ","T","A","B","L","E"," ">> \o Quoted(ColumnReq.table_name) \o <<" ","A","D","D"," ","C","O","L","U","M","N"," ">> \o Quoted(ColumnReq.name)
    \o <<" ">> \o ColumnReq.type

\* the default of the request, when there is one
Default == ColumnReq.default[1]

\* d with every single quote written twice, composed from the right
RECURSIVE Doubled(_)
Doubled(d) ==
  IF d = <<>> THEN <<>>
  ELSE Doubled(SubSeq(d, 1, Len(d) - 1))
         \o (IF d[Len(d)] = "'" THEN <<"'", "'">> ELSE <<d[Len(d)]>>)

\* where the string literal whose opening quote is at i - 1 ends, read as SQL
\* reads it: two quotes in a row stand for one, a single quote closes the
\* literal; 0 when it is never closed
RECURSIVE LiteralEnd(_, _)
LiteralEnd(s, i) ==
  IF i > Len(s) THEN 0
  ELSE IF s[i] # "'" THEN LiteralEnd(s, i + 1)
  ELSE IF i < Len(s) /\ s[i + 1] = "'" THEN LiteralEnd(s, i + 2)
  ELSE i

\* the text of the defaults that are neither strings nor booleans
Shown(d) ==
  IF d.kind = "number"
  THEN CASE d.value = 0 -> <<"0">>
         [] d.value = 5 -> <<"5">>
         [] d.value = -12 -> <<"-", "1", "2">>
         [] d.value = 100 -> <<"1", "0", "0">>
  ELSE CASE d.value = <<>> -> <<"[", "]">>
         [] d.value = <<1, 20>> -> <<"[", "1", " ", "2", "0", "]">>

SqlDefaultOpen == <<" ","D","E","F","A","U","L","T"," ">>

\* C24: an AddColumn request's string default d is emitted as a single-quoted
\* literal in which every ' of d is doubled, so that the literal is closed by
\* its own last quote and by nothing in d; a boolean default is emitted as
\* TRUE or FALSE, any other default as its textual representation, and an
\* absent default emits no DEFAULT clause.
C24_DefaultLiteral ==
  last.op = "AddColumn" /\ last.result # <<>>
    => /\ ColumnReq.default = <<>> => Query = Base
       /\ ColumnReq.default # <<>> =>
            /\ Default.kind = "string"
                 => /\ Query = Base \o SqlDefaultOpen \o <<"'">> \o Doubled(Default.value) \o <<"'">>
                    /\ LiteralEnd(Query, Len(Base) + Len(SqlDefaultOpen) + 2) = Len(Query)
            /\ Default.kind = "bool"
                 => Query = Base \o SqlDefaultOpen
                              \o (IF Default.value THEN <<"T","R","U","E">> ELSE <<"F","A","L","S","E">>)
            /\ Default.kind \notin {"string", "bool"}
                 => Query = Base \o SqlDefaultOpen \o Shown(Default)

\* a default that holds a quote and a semicolon stays inside its literal
C24_Witness ==
  /\ last.op = "AddColumn"
  /\ last.result # <<>>
  /\ ColumnReq.default = <<[kind |-> "string", value |-> <<"a", "'", ";">>]>>
  /\ Query = <<"A","L","T","E","R"," ","T","A","B","L","E"," ","\"","o","r","d","e","r","s","\""," ","A","D","D"," ","C","O","L","U","M","N"," ","\"","n","a","m","e","\""," ","t","e","x","t"," ","D","E","F","A","U","L","T"," ","'","a","'","'",";","'">>

(***************************************************************************)
(* C25.                                                                    *)
(***************************************************************************)
\* the free-form text that was executed and the result returned for it
Text == last.input

Answer == last.result[1]

\* s begins with the keyword kw, whatever the case of its letters
StartsLike(s, kw) ==
  Len(s) >= Len(kw) /\ \A i \in 1..Len(kw) : UpperCh(s[i]) = kw[i]

\* after trimming, the text starts with SELECT or EXPLAIN SELECT: nothing but
\* white space stands before the body, and the body begins with the keyword
SelectLike ==
  /\ \A i \in 1..Len(Text.lead) : Text.lead[i] \in WhiteSpace
  /\ \/ StartsLike(Text.body, KwSelect)
     \/ StartsLike(Text.body, KwExplainSelect)

\* the text was accepted by the validator and the tenant answered with rows
Executed ==
  /\ last.op = "executeSQLQuery"
  /\ last.result # <<>>
  /\ Text.drv # DrvError

\* C25: free-form text is SELECT-like iff, after trimming, it starts with
\* SELECT or EXPLAIN SELECT in any case; SELECT-like text returns the rows
\* and row_count equal to the number of rows; all other text, a SELECT
\* preceded by a comment included, takes the non-SELECT path and returns
\* rows_affected with row_count 0 and no rows.
C25_SelectLikeClassification ==
  Executed
    => /\ Answer.error = ""
       /\ SelectLike => Answer.rows = Text.drv /\ Answer.row_count = Text.drv
       /\ ~SelectLike
            => /\ Answer.rows = 0
               /\ Answer.row_count = 0
               /\ Answer.rows_affected = Text.drv

\* a SELECT behind a block comment that returns a row is run on the
\* non-SELECT path: one row affected, no rows reported
C25_Witness ==
  /\ Executed
  /\ Text.lead = <<"/", "*", " ", "c", " ", "*", "/", " ">>
  /\ Text.body = TxSelectStar
  /\ Text.drv = 1
  /\ Answer = QueryResult(0, 0, 1, "")

(***************************************************************************)
(* C26.                                                                    *)
(***************************************************************************)
\* an ExecuteQuery call that returned a result, and the record it built
ResultReturned == last.op = "ExecuteQuery" /\ last.err = "" /\ last.result # <<>>

Record == last.audit[1]

\* the call left before it sent the text to the tenant
EarlyExit == ~Has(last.steps, "exec")

\* C26: for an ExecuteQuery call that returns a result, the history record
\* built for the call has success = true iff the result's error field is
\* empty; its query text is the request text, its user the caller and its
\* instance the one the locator selected; and on every early-exit branch
\* that writes a record (validator rejection, missing container id, IP
\* failure, missing port, decryption failure, connection-open failure)
\* success = false.
C26_RecordMatchesResult ==
  ResultReturned
    => /\ Len(last.audit) = 1
       /\ Record.success <=> last.result[1].error = ""
       /\ Record.query_text = last.input
       /\ Record.user_id = last.user
       /\ Record.db_instance_id = NewestRunning(last.project)
       /\ EarlyExit => ~Record.success

\* a text the tenant refuses: the result carries the driver's error and the
\* record of the newest running instance says success = false
C26_Witness ==
  /\ ResultReturned
  /\ ~EarlyExit
  /\ \E st \in Sent : ~st.ok
  /\ last.result[1].error # ""
  /\ Record = QueryHistory(NewestRunning(last.project), last.user, QSelect, FALSE)
  /\ Len(instances) > 1

(***************************************************************************)
(* C27.                                                                    *)
(***************************************************************************)
\* the step at which the call did x, 0 when it did not
StepOf(x) == IF StepsAt(x) = {} THEN 0 ELSE CHOOSE i \in StepsAt(x) : \A j \in StepsAt(x) : i <= j

\* C27: ExecuteQuery sends a statement to the tenant only if ValidateSQLQuery
\* accepted the request's text earlier in the same call; it sends at most one
\* statement per call; and the text sent is the request text unchanged, with
\* its comments and its original case, not the text the validator inspected.
C27_ValidatedTextSentUnchanged ==
  last.op = "ExecuteQuery"
    => /\ Len(last.sent) <= 1
       /\ last.sent # <<>>
            => /\ ValidateSQLQuery(last.input) = ""
               /\ StepOf("validate") > 0
               /\ StepOf("validate") < StepOf("exec")
               /\ last.sent[1].text = last.input

\* a lower-case text with a comment is sent as it was given, although the
\* validator looked at another text
C27_Witness ==
  /\ last.op = "ExecuteQuery"
  /\ last.input = QCommented
  /\ Len(last.sent) = 1
  /\ last.sent[1].text = QCommented
  /\ Normalize(QCommented) # QCommented

(***************************************************************************)
(* C28.                                                                    *)
(***************************************************************************)
\* the rows the call stored in the tenant table: one by a RETURNING insert
\* that ran (whether or not its id could be read back), and the rows the
\* plain INSERT affected
Inserted ==
  (IF Has(Attempted, "INSERT RETURNING id") /\ Tenant.ret \in {"ok", "scan_error"}
   THEN 1 ELSE 0)
    + (IF PlainAttempted /\ Tenant.plain # DrvError THEN Tenant.plain ELSE 0)

\* C28: an InsertRow call that returns a hard error has inserted no row into
\* the tenant table, and one that returns success has inserted exactly one
\* row, never two, also when the RETURNING attempt is followed by the plain
\* INSERT.
C28_ErrorMeansNoRow ==
  last.op = "InsertRow"
    => /\ HardError => Inserted = 0
       /\ last.err = "" => Inserted = 1

(***************************************************************************)
(* C29.                                                                    *)
(***************************************************************************)
TableOps == {"CreateTable", "DeleteTable"}

\* a transaction was opened on the tenant
Begun == Has(last.steps, "begin") /\ Tenant.tx # "begin_fails"

\* the tenant accepted the statement and the commit: the schema has changed
Committed ==
  /\ Begun
  /\ last.sent # <<>> /\ last.sent[1].ok
  /\ Has(last.steps, "commit") /\ Tenant.tx = "ok"

\* the transaction ended without effect: rolled back by the call, or refused
\* by the tenant at its commit
RolledBack ==
  /\ Begun
  /\ ~Committed
  /\ Has(last.steps, "rollback") \/ (Has(last.steps, "commit") /\ Tenant.tx = "commit_fails")

\* C29: CreateTable and DeleteTable are atomic on the tenant: the DDL
\* statement runs inside a transaction that is committed only when the
\* statement succeeded; on every error return (begin failure, statement
\* failure, commit failure) the transaction is rolled back and the tenant
\* schema is unchanged, and a success return implies the commit succeeded.
C29_TableOpsAtomic ==
  last.op \in TableOps
    => /\ Len(last.sent) <= 1
       /\ last.sent # <<>> => StepOf("begin") > 0 /\ StepOf("begin") < StepOf("exec")
       /\ Has(last.steps, "commit")
            => last.sent # <<>> /\ last.sent[1].ok /\ StepOf("exec") < StepOf("commit")
       /\ HardError => ~Committed /\ (Begun => RolledBack)
       /\ last.err = "" => Committed

\* the tenant refuses the CREATE TABLE statement: the call rolls back and
\* reports a hard error
C29_Witness ==
  /\ last.op = "CreateTable"
  /\ Tenant.tx = "exec_fails"
  /\ HardError
  /\ Begun
  /\ RolledBack
  /\ Has(last.steps, "rollback")
  /\ last.sent # <<>> /\ ~last.sent[1].ok

(***************************************************************************)
(* C30.                                                                    *)
(***************************************************************************)
\* the status a step of CreateProject writes to its instance row
StatusWritten(step) ==
  CASE step = "instance_row" -> "creating"
    [] step = "status_running" -> "running"
    [] step = "status_failed" -> "failed"
    [] OTHER -> ""

\* the statuses the instance of the call went through, in order
StatusTrace ==
  LET writes == SelectSeq(last.steps, LAMBDA x : StatusWritten(x) # "")
  IN [i \in 1..Len(writes) |-> StatusWritten(writes[i])]

\* C30: over every execution of CreateProject, its failure paths included,
\* an instance's status moves only creating -> running or creating -> failed,
\* and an instance with status running has its container id set and its port
\* configured; hence no call on an instance provisioned by CreateProject ends
\* in the locator's instance-not-configured outcome.  (That a successful
\* CreateProject may leave the running instance without a credential row is
\* shown by the state C30_Witness describes.)
C30_ProvisionedInstancesConfigured ==
  /\ last.op = "CreateProject"
       => /\ StatusTrace \in {<<>>, <<"creating">>, <<"creating", "running">>,
                              <<"creating", "failed">>}
          /\ last.inst # 0 <=> StatusTrace # <<>>
          /\ last.inst # 0 => instances[last.inst].status = StatusTrace[Len(StatusTrace)]
          /\ last.err = "" => last.inst # 0 /\ instances[last.inst].status = "running"
  /\ \A i \in 1..Len(instances) :
       instances[i].status = "running"
         => instances[i].container # NoContainer /\ instances[i].port # NoPort
  /\ last.op \in GatewayOps => Kind(Reported) # "not_configured"

\* a CreateProject that succeeds although its credential could not be stored:
\* the instance is running and configured, and has no credential row
C30_Witness ==
  /\ last.op = "CreateProject"
  /\ last.err = ""
  /\ StatusTrace = <<"creating", "running">>
  /\ instances[last.inst].status = "running"
  /\ instances[last.inst].container # NoContainer
  /\ CredsOf(last.inst) = {}

====
